---- MODULE Spec2Model ----
(***************************************************************************)
(* Model of the agent committee: the worker-thread dispatcher              *)
(* (src/orchestrator/agentProcessor.js) and the committee aggregator       *)
(* (src/committee/aggregator.js).                                          *)
(*                                                                         *)
(* Texts are sequences of tokens; a keyword test (includes, startsWith)    *)
(* is a test on tokens, and string concatenation is \o.                    *)
(*                                                                         *)
(* A preset has at least one agent and its agents have distinct names      *)
(* (config/agentConfigLoader.js).  The request is a string; the server     *)
(* rejects a blank one before it calls orchestrateWorkflow, a script that  *)
(* calls orchestrateWorkflow itself does not.  Handlers run to completion: *)
(* the reactions of a settled promise run before the event loop takes the  *)
(* next event.                                                             *)
(***************************************************************************)
EXTENDS Integers, Sequences, FiniteSets, TLC

\* ------------------------------------------------------------------ bounds
NumTasks == 2
TickMs == 60000
StartTime == 180000

MaxModels == 3
CacheTickMs == 1800000
MaxCacheTicks == 3

\* ------------------------------------------------------- program constants
timeoutMs == 120000
maxRetries == 2
modelCacheTTL == 3600000

NULL == "null"
NoText == <<>>

PROVIDERS == {"openai", "anthropic", "gemini", "groq"}

\* The presets' agent names (taskManager.js), the first NumTasks of them.
AgentNames == <<"ArchitectAgent", "PlannerAgent", "CoderAgent", "ReviewerAgent">>
Units == 1..NumTasks
agentName(u) == AgentNames[u]

\* ------------------------------------------------------------------- texts
\* Replies a worker's provider can produce (already trimmed, non-empty).
WorkerReplies == { <<"ok">>, <<"The build ", "failed">> }
\* Failure messages a worker can post (ProviderError / ValidationError
\* message, or "Unexpected error: ..." for anything else).
WorkerFailures == { <<"API Error", " (429): quota">> }
UnknownProviderFailure(p) == <<"Unexpected error: ", "Unknown provider: ", p>>
MissingKeyFailure(p) == <<"Unexpected error: ", "API key not found for provider: ", p>>

\* Longer replies: a list item, an actionable keyword, a paragraph break
\* and some 300 characters of detail each.
DetailedReply == <<"- ", "Use", " refresh tokens", "\n\n", "(300 characters of detail)">>
DetailedReply2 == <<"* ", "Consider", " rotating keys", "\n\n", "(300 characters of detail)">>

\* Errors the judge provider's process() can throw.
JudgeErrors ==
  { <<"API Error", " (429): ", "Rate limit reached. ", "Please try again in ", "7", "s">>,
    <<"Rate limit", " exceeded for requests per min">>,
    <<"API Error", " (401): invalid key">> }
\* Replies the judge provider can return.
JudgeReplies ==
  { <<"Verdict: ", "{", "winner=PlannerAgent", "}">>,
    <<"I could not decide.">>,
    <<"Verdict: ", "{", "winner: PlannerAgent", "}">>,
    <<"Verdict: ", "{", "winner=PlannerAgent", "}", " as in function f() ", "{", "}">>,
    <<"{", "winner=Agent 1", "}">> }

\* <token tables>
TokenLen(t) ==
  CASE t = "ArchitectAgent" -> 14
    [] t = "PlannerAgent" -> 12
    [] t = "CoderAgent" -> 10
    [] t = "ReviewerAgent" -> 13
    [] t = "ok" -> 2
    [] t = "The build " -> 10
    [] t = "failed" -> 6
    [] t = "API Error" -> 9
    [] t = " (429): quota" -> 13
    [] t = "Unexpected error: " -> 18
    [] t = "Unknown provider: " -> 18
    [] t = "API key not found for provider: " -> 32
    [] t = "- " -> 2
    [] t = "Use" -> 3
    [] t = " refresh tokens" -> 15
    [] t = "\n\n" -> 2
    [] t = "(300 characters of detail)" -> 300
    [] t = "* " -> 2
    [] t = "Consider" -> 8
    [] t = " rotating keys" -> 14
    [] t = " (429): " -> 8
    [] t = "Rate limit reached. " -> 20
    [] t = "Please try again in " -> 20
    [] t = "7" -> 1
    [] t = "s" -> 1
    [] t = "Rate limit" -> 10
    [] t = " exceeded for requests per min" -> 30
    [] t = " (401): invalid key" -> 19
    [] t = "Verdict: " -> 9
    [] t = "{" -> 1
    [] t = "winner=PlannerAgent" -> 19
    [] t = "}" -> 1
    [] t = "I could not decide." -> 19
    [] t = "winner: PlannerAgent" -> 20
    [] t = " as in function f() " -> 20
    [] t = "winner=Agent 1" -> 14
    [] t = "Add login" -> 9
    [] t = " " -> 1
    [] t = "Worker timeout after " -> 21
    [] t = "ms" -> 2
    [] t = "Worker error: " -> 14
    [] t = "boom" -> 4
    [] t = "Worker stopped with exit code " -> 30
    [] t = "Worker exited without sending a message" -> 39
    [] t = "Failed to create worker: " -> 25
    [] t = "spawn EAGAIN" -> 12
    [] t = "prompt for " -> 11
    [] t = "\n" -> 1
    [] t = "Invalid response from " -> 22
    [] t = "openai" -> 6
    [] t = "OpenAI" -> 6
    [] t = "anthropic" -> 9
    [] t = "Anthropic" -> 9
    [] t = "Gemini" -> 6
    [] t = " API" -> 4
    [] t = "Missing or invalid agentConfig in worker data" -> 45
    [] t = "Missing or invalid prompt in worker data" -> 40
    [] t = "Missing or invalid provider in worker data" -> 42
    [] t = "Empty response from LLM provider" -> 32
    [] t = "ProviderError" -> 13
    [] t = "ValidationError" -> 15
    [] t = "[FALLBACK MODE] This is the generated prompt for " -> 49
    [] t = ":\n\n" -> 3
    [] t = "Note: No LLM API key configured." -> 32
    [] t = "Error:" -> 6
    [] t = "No agent outputs provided for aggregation" -> 41
    [] t = "Original request is required and must be a non-empty string" -> 59
    [] t = "Agent " -> 6
    [] t = ": " -> 2
    [] t = "All agents failed to process the request. Error details:\n\n" -> 58
    [] t = "\n\nPlease check your API keys, quotas, and network connectivity." -> 63
    [] t = "[" -> 1
    [] t = "]: " -> 3
    [] t = "..." -> 3
    [] t = "parsed synthesis" -> 16
    [] t = "Aggregation failed. Please review individual agent outputs." -> 59
    [] t = "alpha" -> 5
    [] t = "-" -> 1
    [] t = "2" -> 1
    [] t = "." -> 1
    [] t = "0" -> 1
    [] t = "mini" -> 4
    [] t = "embed" -> 5
    [] t = "small" -> 5
    [] t = "text" -> 4
    [] t = "embedding" -> 9
    [] t = "3" -> 1
    [] t = "beta" -> 4
    [] t = "pro" -> 3
    [] t = "gemini" -> 6
    [] t = "llama" -> 5
    [] t = "b" -> 1
    [] t = "versatile" -> 9
    [] t = "gpt" -> 3
    [] t = "4" -> 1
    [] t = "o" -> 1
    [] t = "1" -> 1
    [] t = "5" -> 1
    [] t = "flash" -> 5
    [] t = "8" -> 1
    [] t = "instant" -> 7
    [] t = "mixtral" -> 7
    [] t = "x" -> 1
    [] t = "6" -> 1
    [] t = "gemma" -> 5
    [] t = "9" -> 1
    [] t = "it" -> 2
    [] t = "You are " -> 8
    [] t = ", a " -> 4
    [] t = "You are a " -> 10
    [] t = "Task: " -> 6
    [] t = "Provide brief analysis." -> 23
    [] t = "Provide a concise analysis and recommendations. Keep response under 250 tokens." -> 79
    [] t = "\n[Truncated]" -> 12
    [] t = "AGENT: " -> 7
    [] t = " (" -> 2
    [] t = "Planner" -> 7
    [] t = ")" -> 1
    [] t = "Role: " -> 6
    [] t = "(5040 characters of a role)" -> 5040
    [] t = "(960 more characters of it)" -> 960
    [] t = "(397 characters of a long task)" -> 397
    [] t = "(103 more characters of it)" -> 103
    [] t = "User Request: Add login" -> 23
    [] t = "(2400 characters of guidelines)" -> 2400
    [] t = "--- AGENT OUTPUT REQUEST ---" -> 28
    [] t = "frontend agent 1" -> 16
    [] t = "frontend agent 2" -> 16
    [] t = "120000" -> 6
    [] t = "groq" -> 4
    [] OTHER -> 1

TokenHas(t) ==
  CASE t = "failed" -> {"failed"}
    [] t = "API Error" -> {"api error"}
    [] t = " (429): quota" -> {"429", "<digit>"}
    [] t = "Unknown provider: " -> {"pro"}
    [] t = "API key not found for provider: " -> {"pro"}
    [] t = "- " -> {"-"}
    [] t = "Use" -> {"use"}
    [] t = "\n\n" -> {"\n\n"}
    [] t = "* " -> {"*"}
    [] t = "Consider" -> {"consider"}
    [] t = " (429): " -> {"429", "<digit>"}
    [] t = "Rate limit reached. " -> {"rate limit"}
    [] t = "Please try again in " -> {"try again in"}
    [] t = "7" -> {"<digit>"}
    [] t = "Rate limit" -> {"rate limit"}
    [] t = " exceeded for requests per min" -> {"requests per min"}
    [] t = " (401): invalid key" -> {"<digit>"}
    [] t = "winner=Agent 1" -> {"<digit>"}
    [] t = "Failed to create worker: " -> {"failed", "create"}
    [] t = "prompt for " -> {"pro"}
    [] t = "Gemini" -> {"mini"}
    [] t = "Missing or invalid prompt in worker data" -> {"pro"}
    [] t = "Missing or invalid provider in worker data" -> {"pro"}
    [] t = "Empty response from LLM provider" -> {"pro"}
    [] t = "ProviderError" -> {"pro"}
    [] t = "[FALLBACK MODE] This is the generated prompt for " -> {"pro"}
    [] t = ":\n\n" -> {"\n\n"}
    [] t = "No agent outputs provided for aggregation" -> {"pro"}
    [] t = "Original request is required and must be a non-empty string" -> {"-"}
    [] t = "All agents failed to process the request. Error details:\n\n" -> {"\n\n", "failed", "pro"}
    [] t = "\n\nPlease check your API keys, quotas, and network connectivity." -> {"\n\n"}
    [] t = "Aggregation failed. Please review individual agent outputs." -> {"failed"}
    [] t = "-" -> {"-"}
    [] t = "2" -> {"<digit>"}
    [] t = "0" -> {"<digit>"}
    [] t = "mini" -> {"mini"}
    [] t = "embedding" -> {"embedding"}
    [] t = "3" -> {"<digit>"}
    [] t = "pro" -> {"pro"}
    [] t = "gemini" -> {"mini"}
    [] t = "4" -> {"<digit>"}
    [] t = "1" -> {"<digit>"}
    [] t = "5" -> {"<digit>"}
    [] t = "flash" -> {"flash"}
    [] t = "8" -> {"<digit>"}
    [] t = "6" -> {"<digit>"}
    [] t = "9" -> {"<digit>"}
    [] t = "Task: " -> {"task:"}
    [] t = "Provide brief analysis." -> {"pro"}
    [] t = "Provide a concise analysis and recommendations. Keep response under 250 tokens." -> {"recommend", "pro", "<digit>"}
    [] t = "User Request: Add login" -> {"use", "request:"}
    [] t = "--- AGENT OUTPUT REQUEST ---" -> {"-"}
    [] t = "frontend agent 1" -> {"<digit>"}
    [] t = "frontend agent 2" -> {"<digit>"}
    [] t = "120000" -> {"<digit>"}
    [] OTHER -> {}
\* </token tables>

\* The needle of response.includes('```') (a backquote cannot be written
\* in a string here).
Fence == "<fence>"

\* String.prototype.length
RECURSIVE length(_)
length(text) == IF text = <<>> THEN 0 ELSE TokenLen(Head(text)) + length(Tail(text))

\* String.prototype.includes, for a needle that no text of the model
\* straddles two tokens with; lowercase needles stand for
\* text.toLowerCase().includes(needle).
includes(text, needle) == \E i \in 1..Len(text) : needle \in TokenHas(text[i])

\* String.prototype.startsWith('Error:')
startsWithError(text) == Len(text) > 0 /\ text[1] = "Error:"

\* String.prototype.trim
WhitespaceTokens == {" ", "\n", "\n\n"}
RECURSIVE trimStart(_)
trimStart(text) ==
  IF text # <<>> /\ Head(text) \in WhitespaceTokens THEN trimStart(Tail(text)) ELSE text
RECURSIVE trimEnd(_)
trimEnd(text) ==
  IF text # <<>> /\ text[Len(text)] \in WhitespaceTokens
    THEN trimEnd(SubSeq(text, 1, Len(text) - 1))
    ELSE text
trim(text) == trimEnd(trimStart(text))

\* Inputs the model draws from.
KeyConfigs == { {}, {"openai"}, {"groq", "openai"}, {"gemini", "openai"} }
ProviderArgs == {NULL, "openai", "gemini"}
\* The userRequest argument: a request, and a blank one.
Requests == { <<"Add login">>, <<" ">> }

VARIABLES
  pc,              \* position of orchestrateWorkflow / processAllAgents
  keys,            \* providers whose API key is configured (process.env)
  agentPreset,     \* the agentPreset argument (NULL before it is read)
  provider,        \* the provider argument (NULL when absent)
  now,             \* clock, in ms
  unit,            \* per spawned unit: the closure state of processAgentWithWorker
                   \* and the state of its worker thread and timer
  inner,           \* per spawned unit: the promise returned by the map callback
  agentResponses,  \* the array processAllAgents returns (<<>> before)
  aggregatorProvider, \* the aggregatorProvider argument (NULL when absent)
  agentOutputs,    \* the name -> text object, as its entries in insertion order
  attempt,         \* aggregate's loop variable
  lastError,       \* aggregate's lastError (NoText when null)
  judgeLog,        \* the outcomes of the aggregatorAgent.process() calls made
  delays,          \* the retry delays slept so far, in ms
  finalSynthesis,  \* the synthesis (NoSynthesis before)
  userRequest,     \* the userRequest argument (NoText before it is read)
  inFlight,        \* aggregatorAgent.process() calls awaiting their outcome
  result,          \* what orchestrateWorkflow returned (NoResult before)
  availableModelsCache, \* an agent's _availableModelsCache (NoCache when null)
  modelCacheTimestamp,  \* its _modelCacheTimestamp (0 when null)
  selection,       \* the last selectBestModel call and what the agent returned
  agentClass,      \* the subclass of BaseAgent the agent is an instance of
  lastCall,        \* the last getBestAvailableModel call (NoCall before)
  groqRequest,     \* the last GroqAgent.process call: the prompt it was given
                   \* and the prompt it posted (NoRequest before)
  workerRun,       \* one run of a worker thread: its workerData, what the
                   \* backend did, what it posted, and the entry the
                   \* dispatcher made of it (NoRun before)
  taskManager      \* taskManager.js: agentsCache, currentPreset, and the
                   \* getAgents calls made so far

dispVars == <<keys, agentPreset, provider, now, unit, inner, agentResponses>>
aggVars == <<aggregatorProvider, agentOutputs, attempt, lastError, judgeLog,
             delays, finalSynthesis, userRequest, inFlight, result>>
modelVars == <<availableModelsCache, modelCacheTimestamp, selection, agentClass, lastCall,
               groqRequest, workerRun, taskManager>>
vars == <<pc, dispVars, aggVars, modelVars>>

\* --------------------------------------------------------------- utils/env
getAvailableProviders == keys

getDefaultProvider ==
  IF getAvailableProviders = {} THEN NULL
  ELSE IF Cardinality(getAvailableProviders) = 1
    THEN CHOOSE p \in getAvailableProviders : TRUE
  ELSE IF "gemini" \in getAvailableProviders THEN "gemini"
  ELSE IF "groq" \in getAvailableProviders THEN "groq"
  ELSE IF "anthropic" \in getAvailableProviders THEN "anthropic"
  ELSE "openai"

getApiKey(p) == IF p \in keys THEN p ELSE NULL

\* a fallback test that never finds the fallback mode
isFallbackModeNever == FALSE

isFallbackMode == getAvailableProviders = {}

\* ------------------------------------------------------------ promise values
Pending == [state |-> "pending", success |-> FALSE, text |-> NoText, cls |-> "none"]
Fulfilled(ok, t) == [state |-> "fulfilled", success |-> ok, text |-> t, cls |-> "none"]
Rejected(c, t) == [state |-> "rejected", success |-> FALSE, text |-> t, cls |-> c]

\* resolve()/reject() of a promise: only the first call has an effect.
settle(p, v) == IF p.state = "pending" THEN v ELSE p

\* ------------------------------------------- processAgentWithWorker (80-191)
\* Closure state right after `let worker = null; let timeoutId = null;
\* let isResolved = false;`, with the thread and the timer not yet created.
NewUnit ==
  [ worker |-> "null", timeoutId |-> "null", isResolved |-> FALSE,
    promise |-> Pending,
    thread |-> "none",      \* "none" | "running" | "exited"
    posted |-> FALSE,       \* the thread's message was delivered
    errored |-> FALSE,      \* the thread's 'error' event was delivered
    killed |-> FALSE,       \* terminate() reached the running thread
    timer |-> "none",       \* "none" | "pending" | "fired" | "cleared"
    armedAt |-> -1,
    settleCalls |-> 0, clearCalls |-> 0, terminateCalls |-> 0 ]

clearTimer(s) ==
  IF s.timeoutId # "null"
    THEN [s EXCEPT !.timer = IF @ = "pending" THEN "cleared" ELSE @,
                   !.clearCalls = @ + 1,
                   !.timeoutId = "null"]
    ELSE s

terminateWorker(s) ==
  IF s.worker # "null"
    THEN [s EXCEPT !.killed = (@ \/ s.thread = "running"),
                   !.terminateCalls = @ + 1,
                   !.worker = "null"]
    ELSE s

\* cleanup that forgets clearTimeout
cleanupKeepsTimer(s) == terminateWorker(s)

cleanup(s) == terminateWorker(clearTimer(s))

\* resolveOnce/rejectOnce without the isResolved test
settleAlways(s, v) ==
  [cleanup([s EXCEPT !.isResolved = TRUE]) EXCEPT
     !.promise = settle(@, v),
     !.settleCalls = @ + 1]

settleOnce(s, v) ==
  IF s.isResolved THEN s
  ELSE [cleanup([s EXCEPT !.isResolved = TRUE]) EXCEPT
          !.promise = settle(@, v),
          !.settleCalls = @ + 1]

resolveOnce(s, ok, t) == settleOnce(s, Fulfilled(ok, t))
rejectOnce(s, c, t) == settleOnce(s, Rejected(c, t))

TimeoutMessage == <<"Worker timeout after ", ToString(timeoutMs), "ms">>
WorkerErrorMessage == <<"Worker error: ", "boom">>
ExitCodeMessage(code) == <<"Worker stopped with exit code ", ToString(code)>>
ExitNoMessage == <<"Worker exited without sending a message">>
CreateFailedMessage == <<"Failed to create worker: ", "spawn EAGAIN">>

\* a worker created without its deadline timer
createWorkerNoTimer(s) == [s EXCEPT !.worker = "held", !.thread = "running"]

\* new Worker(...) succeeded: the thread runs, the deadline timer is armed.
createWorker(s) ==
  [s EXCEPT !.worker = "held", !.thread = "running",
            !.timeoutId = "set", !.timer = "pending", !.armedAt = now]

\* new Worker(...) threw: the catch block.
createFailed(s) == rejectOnce(s, "WorkerError", CreateFailedMessage)

\* a timeout callback that settles the unit and leaves its worker running
onTimeoutLeavesWorker(s) ==
  IF s.isResolved THEN [s EXCEPT !.timer = "fired"]
  ELSE [s EXCEPT !.timer = "fired", !.isResolved = TRUE,
                 !.promise = settle(@, Rejected("TimeoutError", TimeoutMessage)),
                 !.settleCalls = @ + 1]

\* The timer callback (131-137).
onTimeout(s) == rejectOnce([s EXCEPT !.timer = "fired"], "TimeoutError", TimeoutMessage)

onMessage(s, ok, t) == resolveOnce([s EXCEPT !.posted = TRUE], ok, t)

onError(s) == rejectOnce([s EXCEPT !.errored = TRUE], "WorkerError", WorkerErrorMessage)

onExit(s, code) ==
  LET s1 == [s EXCEPT !.thread = "exited"] IN
  IF ~s1.isResolved
    THEN IF code # 0
      THEN rejectOnce(s1, "WorkerError", ExitCodeMessage(code))
      ELSE rejectOnce(s1, "WorkerError", ExitNoMessage)
    ELSE s1

\* a deadline compared with the clock instead of the time since arming
timerDueAbsolute(s) == s.timer = "pending" /\ now >= timeoutMs

timerDue(s) == s.timer = "pending" /\ now - s.armedAt >= timeoutMs

\* ------------------------------------------------- workers/agentWorker.js
promptOf(u) == <<"prompt for ", agentName(u)>>

targetProvider == IF provider # NULL THEN provider ELSE getDefaultProvider

\* What the backend does with the one request of a worker: it answers with
\* a body whose content is a text, or it fails (the formatted error).
BackendOutcomes ==
  { [kind |-> "content", content |-> t] : t \in WorkerReplies }
  \cup { [kind |-> "error", content |-> t] : t \in WorkerFailures }

\* Bodies without a usable text: empty, whitespace only, not a string; and a
\* text surrounded by whitespace.
OtherBackendOutcomes ==
  { [kind |-> "content", content |-> <<>>],
    [kind |-> "content", content |-> <<" ", "\n">>],
    [kind |-> "nontext", content |-> <<>>],
    [kind |-> "content", content |-> <<" ", "ok", "\n">>] }

\* a validation that lets any string through
validateResponseAnyString(o) == o.kind = "content"

\* BaseAgent.validateResponse (729-731), and the same test in the worker (208)
validateResponse(o) == o.kind = "content" /\ o.content # <<>> /\ trim(o.content) # <<>>

\* agent.process(prompt) of the three agent classes createAgent knows: the
\* content, or a ProviderError built by createProviderError.
agentProcess(p, o) ==
  IF o.kind = "error"
    THEN [threw |-> TRUE, cls |-> "ProviderError", text |-> o.content, posted |-> <<>>]
  ELSE IF ~validateResponse(o)
    THEN [threw |-> TRUE, cls |-> "ProviderError", posted |-> <<>>,
          text |-> <<"Invalid response from ",
                     CASE p = "openai" -> "OpenAI" [] p = "anthropic" -> "Anthropic"
                       [] OTHER -> "Gemini",
                     " API">>]
  ELSE [threw |-> FALSE, cls |-> "none", text |-> o.content, posted |-> <<>>]

\* The try block of the worker's processAgent (187-217): what it threw, if
\* anything, and the messages it posted.
processAgentTry(data, o) ==
  LET thrown(c, t) == [threw |-> TRUE, cls |-> c, text |-> t, posted |-> <<>>] IN
  IF data.agentConfig = NULL
    THEN thrown("ValidationError", <<"Missing or invalid agentConfig in worker data">>)
  ELSE IF data.prompt = <<>> \/ trim(data.prompt) = <<>>
    THEN thrown("ValidationError", <<"Missing or invalid prompt in worker data">>)
  ELSE IF data.provider = NULL
    THEN thrown("ValidationError", <<"Missing or invalid provider in worker data">>)
  ELSE IF getApiKey(data.provider) = NULL
    THEN thrown("Error", <<"API key not found for provider: ", data.provider>>)
  ELSE IF data.provider \notin {"openai", "anthropic", "gemini"}
    THEN thrown("Error", <<"Unknown provider: ", data.provider>>)
  ELSE LET response == agentProcess(data.provider, o) IN
       IF response.threw THEN response
       ELSE IF ~validateResponse([kind |-> "content", content |-> response.text])
         THEN thrown("ProviderError", <<"Empty response from LLM provider">>)
       ELSE [threw |-> FALSE, cls |-> "none", text |-> NoText,
             posted |-> << <<TRUE, trim(response.text)>> >>]

\* a worker without the catch block
processAgentNoCatch(data, o) == processAgentTry(data, o).posted

\* processAgent of the worker (186-232): the messages posted to the parent,
\* each <<success, text>>; the catch block posts the failure.
processAgent(data, o) ==
  LET try == processAgentTry(data, o) IN
  IF try.threw
    THEN try.posted
         \o << <<FALSE, IF try.cls \in {"ProviderError", "ValidationError"}
                          THEN try.text
                          ELSE <<"Unexpected error: ">> \o try.text>> >>
    ELSE try.posted

\* workerData as processAgentWithWorker passes it (117-128)
workerData(u, p) == [unit |-> u, agentConfig |-> agentName(u), prompt |-> promptOf(u),
                     provider |-> p]

\* The one message a worker thread of the dispatcher posts: <<success, text>>.
workerMessages(p) == { processAgent(workerData(1, p), o)[1] : o \in BackendOutcomes }

\* ------------------------------------- taskManager.js, agentConfigLoader.js
\* The agentPreset argument: a preset of the configuration, and a name the
\* configuration does not have (getAgentsByPreset throws).
Presets == {"specialized", "nonexistent"}
presetFound(preset) == preset = "specialized"

\* getAgents(preset): the names of the preset's agents.
getAgents == [u \in Units |-> agentName(u)]

\* ------------------------------------------------ processAllAgents (202-337)
NoEntry == [agent |-> NULL, success |-> FALSE, actualResponse |-> NoText,
            error |-> NoText, fallbackMode |-> FALSE]

\* a fallback entry that does not carry the fallback mark
fallbackEntryUnmarked(u) ==
  [ agent |-> agentName(u), success |-> TRUE,
    actualResponse |-> promptOf(u),
    error |-> NoText, fallbackMode |-> FALSE ]

\* The entry of one task in fallback mode (252-264).
fallbackEntry(u) ==
  [ agent |-> agentName(u), success |-> TRUE,
    actualResponse |-> <<"[FALLBACK MODE] This is the generated prompt for ",
                         agentName(u), ":\n\n">> \o promptOf(u)
                       \o <<"\n\n", "Note: No LLM API key configured.">>,
    error |-> NoText, fallbackMode |-> TRUE ]

\* the map callback without its try/catch: a rejection propagates
mapCallbackNoCatch(u, p) ==
  IF p.state = "fulfilled"
    THEN [state |-> "fulfilled",
          entry |-> [agent |-> agentName(u), success |-> p.success,
                     actualResponse |-> IF p.success THEN p.text ELSE NoText,
                     error |-> IF p.success THEN NoText ELSE p.text,
                     fallbackMode |-> FALSE]]
    ELSE [state |-> "rejected",
          entry |-> [agent |-> NULL, success |-> FALSE, actualResponse |-> NoText,
                     error |-> NoText, fallbackMode |-> FALSE]]

\* The async map callback (285-328) once processAgentWithWorker has settled
\* with p: the try branch for a fulfilled promise, the catch for a rejected one.
mapCallback(u, p) ==
  IF p.state = "fulfilled"
    THEN IF p.success
      THEN [state |-> "fulfilled",
            entry |-> [agent |-> agentName(u), success |-> TRUE,
                       actualResponse |-> p.text, error |-> NoText,
                       fallbackMode |-> FALSE]]
      ELSE [state |-> "fulfilled",
            entry |-> [agent |-> agentName(u), success |-> FALSE,
                       actualResponse |-> NoText, error |-> p.text,
                       fallbackMode |-> FALSE]]
    ELSE [state |-> "fulfilled",
          entry |-> [agent |-> agentName(u), success |-> FALSE,
                     actualResponse |-> NoText,
                     error |-> IF p.cls \in {"WorkerError", "TimeoutError"}
                                 THEN p.text
                                 ELSE <<"Unexpected error: ">> \o p.text,
                     fallbackMode |-> FALSE]]

PendingInner == [state |-> "pending", entry |-> NoEntry]

\* a join that completes with the first fulfilled callback
\* a join that does not wait for the last callback
PromiseAllStateSkipLast(inn) ==
  IF \E i \in 1..Len(inn) : inn[i].state = "rejected" THEN "rejected"
  ELSE IF \A i \in 1..(Len(inn) - 1) : inn[i].state = "fulfilled" THEN "fulfilled"
  ELSE "pending"
PromiseAnyState(inn) ==
  IF \E i \in 1..Len(inn) : inn[i].state = "rejected" THEN "rejected"
  ELSE IF \E i \in 1..Len(inn) : inn[i].state = "fulfilled" THEN "fulfilled"
  ELSE "pending"

\* Promise.all over the callbacks' promises.
PromiseAllState(inn) ==
  IF \E i \in 1..Len(inn) : inn[i].state = "rejected" THEN "rejected"
  ELSE IF \A i \in 1..Len(inn) : inn[i].state = "fulfilled" THEN "fulfilled"
  ELSE "pending"

\* The filter callbacks a => a.success and a => !a.success.
isSuccessEntry(e) == e.success
isFailureEntry(e) == ~e.success

\* results gathered as successes first, failures after
PromiseAllValuesPartitioned(inn) ==
  SelectSeq([i \in 1..Len(inn) |-> inn[i].entry], isSuccessEntry)
  \o SelectSeq([i \in 1..Len(inn) |-> inn[i].entry], isFailureEntry)

PromiseAllValues(inn) == [i \in 1..Len(inn) |-> inn[i].entry]

\* an event loop that takes events between two spawns
eventLoopOpenWhileSpawning ==
  \/ pc \notin {"spawn", "join", "returned"}
  \/ \E u \in 1..Len(unit) : unit[u].promise.state # "pending" /\ inner[u].state = "pending"
  \/ pc = "join" /\ PromiseAllState(inner) # "pending"

\* The event loop takes the next event only when no promise reaction is
\* pending.  Events that arrive after orchestrateWorkflow has resumed touch
\* nothing the aggregation reads, so they are followed only for a direct
\* call of processAllAgents (pc = "returned").
eventLoopBlocked ==
  \/ pc \notin {"join", "returned"}
  \/ \E u \in 1..Len(unit) : unit[u].promise.state # "pending" /\ inner[u].state = "pending"
  \/ pc = "join" /\ PromiseAllState(inner) # "pending"

\* ------------------------------------------- orchestrateWorkflow (366-386)
\* the collection step without the "Error: " prefix
outputOfNoPrefix(r) ==
  IF r.success /\ r.actualResponse # NoText
    THEN r.actualResponse
    ELSE IF r.error # NoText
      THEN r.error
      ELSE promptOf(CHOOSE u \in Units : agentName(u) = r.agent)

\* Step 2: the text handed to the aggregator for one entry.
outputOf(r) ==
  IF r.success /\ r.actualResponse # NoText
    THEN r.actualResponse
    ELSE IF r.error # NoText
      THEN <<"Error:", " ">> \o r.error
      ELSE promptOf(CHOOSE u \in Units : agentName(u) = r.agent)

\* Assignment agentOutputs[name] = text: a later entry of the same name
\* replaces the text and keeps the key's position.
RECURSIVE collectOutputs(_, _)
collectOutputs(rs, acc) ==
  IF rs = <<>> THEN acc
  ELSE LET r == Head(rs)
           e == [name |-> r.agent, text |-> outputOf(r)]
       IN IF \E i \in 1..Len(acc) : acc[i].name = r.agent
            THEN collectOutputs(Tail(rs),
                   [i \in 1..Len(acc) |-> IF acc[i].name = r.agent THEN e ELSE acc[i]])
            ELSE collectOutputs(Tail(rs), Append(acc, e))

\* ------------------------------------------------- committee/aggregator.js
NoSynthesis == [method |-> "none", winner |-> NULL, synthesis |-> NoText,
                allAgentsFailed |-> FALSE]

\* The argument checks of aggregate (184-191): the ValidationError thrown,
\* or NoText when the arguments pass.
aggregateValidation(outs, req) ==
  IF Len(outs) = 0 THEN <<"No agent outputs provided for aggregation">>
  ELSE IF req = NoText \/ length(trim(req)) = 0
    THEN <<"Original request is required and must be a non-empty string">>
  ELSE NoText

\* createAggregatorAgent (19-85): NULL, or the provider the judge is built for.
createAggregatorAgent(p) ==
  LET tp == IF p # NULL THEN p ELSE getDefaultProvider IN
  IF tp = NULL THEN NULL
  ELSE IF getApiKey(tp) = NULL THEN NULL
  ELSE IF tp \in {"openai", "anthropic", "gemini"} THEN tp
  ELSE NULL

\* The error-shape test of aggregate (197-203).
isErrorShaped(text) ==
  \/ startsWithError(text)
  \/ includes(text, "api error")
  \/ includes(text, "failed")

allAreErrors(outs) == \A i \in 1..Len(outs) : isErrorShaped(outs[i].text)

RECURSIVE errorSummary(_, _)
errorSummary(outs, idx) ==
  IF outs = <<>> THEN <<>>
  ELSE <<"Agent ", ToString(idx), ": ">> \o Head(outs).text
       \o (IF Len(outs) > 1 THEN <<"\n">> ELSE <<>>) \o errorSummary(Tail(outs), idx + 1)

errorFallback(outs) ==
  [ method |-> "error_fallback", winner |-> NULL,
    synthesis |-> <<"All agents failed to process the request. Error details:\n\n">>
                  \o errorSummary(outs, 1)
                  \o <<"\n\nPlease check your API keys, quotas, and network connectivity.">>,
    allAgentsFailed |-> TRUE ]

\* heuristicScoring (131-173)
actionableKeywords ==
  {"implement", "recommend", "suggest", "should", "consider", "use", "create"}

min(a, b) == IF a < b THEN a ELSE b

score(text) ==
  (IF length(text) > 200 /\ length(text) < 2000 THEN 2
   ELSE IF length(text) > 50 THEN 1 ELSE 0)
  + (IF includes(text, "-") \/ includes(text, "*") THEN 1 ELSE 0)
  + (IF includes(text, Fence) THEN 1 ELSE 0)
  + (IF includes(text, "\n\n") THEN 1 ELSE 0)
  + min(Cardinality({kw \in actionableKeywords : includes(text, kw)}), 3)

\* a reduction that keeps the earlier of two equal scores
RECURSIVE reduceWinnerKeepFirst(_, _)
reduceWinnerKeepFirst(a, rest) ==
  IF rest = <<>> THEN a
  ELSE reduceWinnerKeepFirst(IF score(a.text) >= score(Head(rest).text) THEN a ELSE Head(rest),
                             Tail(rest))

\* Object.entries(scores).reduce((a, b) => scores[a] > scores[b] ? a : b)
RECURSIVE reduceWinner(_, _)
reduceWinner(a, rest) ==
  IF rest = <<>> THEN a
  ELSE reduceWinner(IF score(a.text) > score(Head(rest).text) THEN a ELSE Head(rest),
                    Tail(rest))

\* text.substring(0, n), cut at a token boundary
RECURSIVE substring(_, _)
substring(text, n) ==
  IF text = <<>> \/ TokenLen(Head(text)) > n THEN <<>>
  ELSE <<Head(text)>> \o substring(Tail(text), n - TokenLen(Head(text)))

RECURSIVE excerpts(_)
excerpts(outs) ==
  IF outs = <<>> THEN <<>>
  ELSE <<"[", Head(outs).name, "]: ">> \o substring(Head(outs).text, 300) \o <<"...">>
       \o (IF Len(outs) > 1 THEN <<"\n\n">> ELSE <<>>) \o excerpts(Tail(outs))

\* a winner defaulted to the first agent, as in the judged path
heuristicScoringFirstAgent(outs) ==
  [ method |-> "heuristic",
    winner |-> Head(outs).name,
    synthesis |-> excerpts(outs),
    allAgentsFailed |-> FALSE ]

heuristicScoring(outs) ==
  [ method |-> "heuristic",
    winner |-> reduceWinner(Head(outs), Tail(outs)).name,
    synthesis |-> excerpts(outs),
    allAgentsFailed |-> FALSE ]

\* The rate-limit classification of a judge error (284-288).
isRateLimit(msg) ==
  /\ msg # NoText
  /\ \/ includes(msg, "429")
     \/ includes(msg, "rate limit")
     \/ includes(msg, "requests per min")

\* a retry bound that is one too large
shouldRetryOffByOne(err, att) == isRateLimit(err) /\ att <= maxRetries

\* a retry that ignores the classification of the error
shouldRetryAny(err, att) == att < maxRetries

\* The catch block's decision to run another iteration (290).
shouldRetry(err, att) == isRateLimit(err) /\ att < maxRetries

\* lastError.message.match(/try again in (\d+)s/i): the seconds, or -1.
DigitTokens == {"7"}
parseInt(t) == CASE t = "7" -> 7 [] OTHER -> 0
delayMatch(msg) ==
  IF \E i \in 1..(Len(msg) - 2) :
       /\ "try again in" \in TokenHas(msg[i])
       /\ msg[i + 1] \in DigitTokens
       /\ msg[i + 2] = "s"
    THEN parseInt(msg[1 + CHOOSE i \in 1..(Len(msg) - 2) :
           /\ "try again in" \in TokenHas(msg[i])
           /\ msg[i + 1] \in DigitTokens
           /\ msg[i + 2] = "s"])
    ELSE -1

\* a delay that does not grow with the attempt
retryDelayConstant(att, err) ==
  IF err # NoText /\ delayMatch(err) # -1 THEN delayMatch(err) * 1000 ELSE 20000

\* The delay slept before attempt att > 0 (236-250).
retryDelay(att, err) ==
  LET baseDelay == IF err # NoText /\ delayMatch(err) # -1
                     THEN delayMatch(err) * 1000
                     ELSE 20000
  IN baseDelay * att

\* response.match(/\{[\s\S]*\}/): from the first "{" to the last "}".
jsonMatch(resp) ==
  LET opens == {i \in 1..Len(resp) : resp[i] = "{"}
      first == CHOOSE i \in opens : \A j \in opens : i <= j
      closes == {i \in 1..Len(resp) : resp[i] = "}" /\ i > first}
      last == CHOOSE i \in closes : \A j \in closes : j <= i
  IN IF opens = {} THEN NoText
     ELSE IF closes = {} THEN NoText
     ELSE SubSeq(resp, first, last)

\* JSON.parse of the matched block: the winner it names, or "throws".  A
\* block decodes when it is one object: "{", a member written as JSON, "}";
\* "winner: PlannerAgent" stands for a member that is not JSON.
JSONparse(block) ==
  IF Len(block) = 3 /\ block[1] = "{" /\ block[3] = "}"
    THEN CASE block[2] = "winner=PlannerAgent" -> "PlannerAgent"
           [] block[2] = "winner=Agent 1" -> "Agent 1"
           [] OTHER -> "throws"
    ELSE "throws"

\* a judge path that scores heuristically when the reply does not decode
judgedOrHeuristic(outs, resp) ==
  IF jsonMatch(resp) # NoText /\ JSONparse(jsonMatch(resp)) # "throws"
    THEN [ method |-> "llm", winner |-> JSONparse(jsonMatch(resp)),
           synthesis |-> <<"parsed synthesis">>, allAgentsFailed |-> FALSE ]
    ELSE heuristicScoring(outs)

\* The result built from a judge reply (256-281).
judged(outs, resp) ==
  IF jsonMatch(resp) # NoText /\ JSONparse(jsonMatch(resp)) # "throws"
    THEN [ method |-> "llm", winner |-> JSONparse(jsonMatch(resp)),
           synthesis |-> <<"parsed synthesis">>, allAgentsFailed |-> FALSE ]
    ELSE [ method |-> "llm", winner |-> Head(outs).name,
           synthesis |-> resp, allAgentsFailed |-> FALSE ]

\* ------------------------------------------- orchestrateWorkflow (388-448)
\* Variants of the catch: one that leaves finalSynthesis unset, and one that
\* throws again.
orchestrateCatchNoSynthesis(rs) ==
  [ rejects |-> FALSE, synthesis |-> NoSynthesis ]

orchestrateCatchRethrows(rs) ==
  [ rejects |-> TRUE, synthesis |-> NoSynthesis ]

\* What the catch around aggregate does with an exception (394-405).
orchestrateCatch(rs) ==
  [ rejects |-> FALSE,
    synthesis |->
      [ method |-> "fallback",
        winner |-> IF Len(rs) > 0 THEN rs[1].agent ELSE "Unknown",
        synthesis |-> <<"Aggregation failed. Please review individual agent outputs.">>,
        allAgentsFailed |-> FALSE ] ]

\* a result whose processed count is the number of successes
workflowResultCountsSuccesses(rs, syn, p, ap) ==
  [ returned |-> TRUE,
    workflow |->
      [ provider |-> IF p # NULL THEN p ELSE getDefaultProvider,
        aggregatorProvider |-> IF ap # NULL THEN ap
                               ELSE IF p # NULL THEN p ELSE getDefaultProvider,
        totalAgents |-> Len(getAgents),
        processedAgents |-> Len(SelectSeq(rs, isSuccessEntry)),
        successfulAgents |-> Len(SelectSeq(rs, isSuccessEntry)),
        failedAgents |-> Len(SelectSeq(rs, isFailureEntry)) ],
    agents |-> [i \in 1..Len(rs) |->
                 [ agent |-> rs[i].agent,
                   actualResponse |-> rs[i].actualResponse,
                   hasError |-> rs[i].error # NoText,
                   success |-> rs[i].success ]],
    finalSynthesis |-> [winner |-> syn.winner, synthesis |-> syn.synthesis,
                        method |-> syn.method] ]
NoResult ==
  [ returned |-> FALSE,
    workflow |-> [provider |-> NULL, aggregatorProvider |-> NULL, totalAgents |-> 0,
                  processedAgents |-> 0, successfulAgents |-> 0, failedAgents |-> 0],
    agents |-> <<>>,
    finalSynthesis |-> [winner |-> NULL, synthesis |-> NoText, method |-> "none"] ]

\* The object orchestrateWorkflow returns (409-448).
workflowResult(rs, syn, p, ap) ==
  [ returned |-> TRUE,
    workflow |->
      [ provider |-> IF p # NULL THEN p ELSE getDefaultProvider,
        aggregatorProvider |-> IF ap # NULL THEN ap
                               ELSE IF p # NULL THEN p ELSE getDefaultProvider,
        totalAgents |-> Len(getAgents),
        processedAgents |-> Len(rs),
        successfulAgents |-> Len(SelectSeq(rs, isSuccessEntry)),
        failedAgents |-> Len(SelectSeq(rs, isFailureEntry)) ],
    agents |-> [i \in 1..Len(rs) |->
                 [ agent |-> rs[i].agent,
                   actualResponse |-> rs[i].actualResponse,
                   hasError |-> rs[i].error # NoText,
                   success |-> rs[i].success ]],
    finalSynthesis |-> [winner |-> syn.winner, synthesis |-> syn.synthesis,
                        method |-> syn.method] ]

\* aggregate has produced syn (or the catch has): orchestrateWorkflow returns.
finish(syn, ap) ==
  /\ finalSynthesis' = syn
  /\ result' = workflowResult(agentResponses, syn, provider, ap)
  /\ pc' = "done"

\* ---------------------------------------- agents/baseAgent.js (583-698)
\* Model ids a provider can list, and the agent's default model.
ModelIds ==
  { <<"alpha", "-", "2", ".", "0">>,
    <<"alpha", "-", "2", ".", "0", "-", "mini">>,
    <<"embed", "-", "small">>,
    <<"text", "-", "embedding", "-", "3">>,
    <<"beta", "-", "pro">> }
\* getDefaultModel() of the agent's class (openaiAgent.js: 15-17,
\* part_002: 18-21, part_001: 133-135).
AgentClasses == {"openai", "gemini", "groq"}
getDefaultModel ==
  CASE agentClass = "gemini" -> <<"gemini", "-", "pro">>
    [] agentClass = "groq" -> <<"llama", "-", "3", ".", "3", "-", "7", "0", "b", "-", "versatile">>
    [] OTHER -> <<"gpt", "-", "4", "o", "-", "mini">>

\* The lists fetchAvailableModels can return: up to MaxModels different ids.
ModelLists ==
  { ms \in UNION { [1..n -> ModelIds] : n \in 0..MaxModels } :
      \A i \in 1..Len(ms) : \A j \in 1..Len(ms) : i # j => ms[i] # ms[j] }

\* The needle of /\d/.test(name).
Digit == "<digit>"

\* The filter callback of selectBestModel (631-639).
isChatModel(name) ==
  /\ ~includes(name, "embedding")
  /\ ~includes(name, "moderation")
  /\ ~includes(name, "whisper")
  /\ ~includes(name, "dall-e")
  /\ ~includes(name, "tts")

hasVersion(name) == includes(name, Digit)
isPro(name) == includes(name, "pro") \/ includes(name, "sonnet") \/ includes(name, "opus")
isMini(name) == includes(name, "mini") \/ includes(name, "flash") \/ includes(name, "nano")

\* a.localeCompare(b), token by token: punctuation, then digits, then
\* letters in alphabetical order.
TokenRank(t) ==
  CASE t = "-" -> 1 [] t = "." -> 2
    [] t = "0" -> 10 [] t = "1" -> 11 [] t = "2" -> 12 [] t = "3" -> 13
    [] t = "4" -> 14 [] t = "5" -> 15 [] t = "6" -> 16 [] t = "7" -> 17
    [] t = "8" -> 18 [] t = "9" -> 19
    [] t = "alpha" -> 20 [] t = "b" -> 21 [] t = "beta" -> 22 [] t = "embed" -> 23
    [] t = "embedding" -> 24 [] t = "flash" -> 25 [] t = "gemini" -> 26
    [] t = "gemma" -> 27 [] t = "gpt" -> 28 [] t = "instant" -> 29 [] t = "it" -> 30
    [] t = "llama" -> 31 [] t = "mini" -> 32 [] t = "mixtral" -> 33 [] t = "o" -> 34
    [] t = "pro" -> 35 [] t = "small" -> 36 [] t = "text" -> 37
    [] t = "versatile" -> 38 [] t = "x" -> 39
    [] OTHER -> 99

RECURSIVE localeCompare(_, _)
localeCompare(a, b) ==
  IF a = <<>> /\ b = <<>> THEN 0
  ELSE IF a = <<>> THEN -1
  ELSE IF b = <<>> THEN 1
  ELSE IF TokenRank(Head(a)) < TokenRank(Head(b)) THEN -1
  ELSE IF TokenRank(Head(a)) > TokenRank(Head(b)) THEN 1
  ELSE localeCompare(Tail(a), Tail(b))

\* The comparator of the sort (646-670).
compareModels(a, b) ==
  IF hasVersion(a) /\ ~hasVersion(b) THEN -1
  ELSE IF ~hasVersion(a) /\ hasVersion(b) THEN 1
  ELSE IF isPro(a) /\ ~isPro(b) THEN -1
  ELSE IF ~isPro(a) /\ isPro(b) THEN 1
  ELSE IF ~isMini(a) /\ isMini(b) THEN -1
  ELSE IF isMini(a) /\ ~isMini(b) THEN 1
  ELSE localeCompare(a, b)

\* chatModels.sort(comparator)
RECURSIVE insertModel(_, _)
insertModel(m, sorted) ==
  IF sorted = <<>> THEN <<m>>
  ELSE IF compareModels(m, Head(sorted)) < 0 THEN <<m>> \o sorted
  ELSE <<Head(sorted)>> \o insertModel(m, Tail(sorted))

RECURSIVE sortModels(_)
sortModels(ms) ==
  IF ms = <<>> THEN <<>> ELSE insertModel(Head(ms), sortModels(Tail(ms)))

NoSelection == [called |-> FALSE, models |-> <<>>, chatModels |-> <<>>,
                sorted |-> <<>>, best |-> NoText]

\* selectBestModel(models) (625-673): its locals and the id it returns.
selectBestModel(models) ==
  LET chatModels == SelectSeq(models, isChatModel)
      sorted == sortModels(chatModels)
  IN [ called |-> TRUE, models |-> models, chatModels |-> chatModels,
       sorted |-> sorted,
       best |-> IF models = <<>> THEN getDefaultModel
                ELSE IF chatModels = <<>> THEN models[1]
                ELSE sorted[1] ]

\* The cache fields of a new agent (596-597), and a cached list.
NoCache == [cached |-> FALSE, models |-> <<>>]
Cached(models) == [cached |-> TRUE, models |-> models]

\* The lists the subclasses return in place of a list they could not fetch
\* (part_002: 62-69, part_001: 156-175).
GeminiKnownModels ==
  << <<"gemini", "-", "1", ".", "5", "-", "pro">>,
     <<"gemini", "-", "1", ".", "5", "-", "flash">>,
     <<"gemini", "-", "pro">> >>
GroqKnownModels ==
  << <<"llama", "-", "3", ".", "3", "-", "7", "0", "b", "-", "versatile">>,
     <<"llama", "-", "3", ".", "1", "-", "7", "0", "b", "-", "versatile">>,
     <<"llama", "-", "3", ".", "1", "-", "8", "b", "-", "instant">>,
     <<"mixtral", "-", "8", "x", "7", "b", "-", "3", "2", "7", "6", "8">>,
     <<"gemma", "2", "-", "9", "b", "-", "it">> >>

\* fetchAvailableModels() of the agent's class: ok tells whether the request
\* for the model list succeeded, listed is the list of ids it carried.  No
\* subclass lets the failure out of its own try/catch.
fetchAvailableModels(ok, listed) ==
  CASE agentClass = "gemini" ->
         [ throws |-> FALSE,
           models |-> IF ~ok THEN Append(GeminiKnownModels, getDefaultModel)
                      ELSE IF Len(listed) > 0 THEN listed
                      ELSE <<getDefaultModel>> ]
    [] agentClass = "groq" ->
         [ throws |-> FALSE,
           models |-> IF ~ok THEN Append(GroqKnownModels, getDefaultModel)
                      ELSE IF Len(listed) = 0 THEN GroqKnownModels
                      ELSE listed ]
    [] agentClass = "openai" ->
         [ throws |-> FALSE,
           models |-> IF ~ok THEN <<getDefaultModel>> ELSE listed ]
    \* a class that inherits BaseAgent.fetchAvailableModels (615-617)
    [] OTHER -> [ throws |-> TRUE, models |-> <<>> ]

\* The lists the provider's model endpoint answers with in ModelSpec.
FetchedLists ==
  { <<>>,
    << <<"alpha", "-", "2", ".", "0">>, <<"alpha", "-", "2", ".", "0", "-", "mini">>,
       <<"embed", "-", "small">> >>,
    << <<"alpha", "-", "2", ".", "0", "-", "mini">>, <<"beta", "-", "pro">> >> }

NoCall == [made |-> FALSE, forceRefresh |-> FALSE, fetched |-> FALSE,
           fetchOk |-> FALSE, at |-> 0, hadCache |-> FALSE,
           timestampBefore |-> 0]

NoRequest == [made |-> FALSE, prompt |-> <<>>, posted |-> <<>>, max_tokens |-> 0]

NoRun == [ran |-> FALSE, data |-> workerData(1, NULL), backend |-> "none",
          outcome |-> [kind |-> "nontext", content |-> <<>>], posted |-> <<>>,
          entry |-> NoEntry]

\* The module as loaded (11-12): agentsCache = null, currentPreset =
\* 'specialized'; no call of getAgents made.
TaskManagerIdle ==
  [agentsCache |-> [loaded |-> FALSE, names |-> <<>>], currentPreset |-> "specialized",
   calls |-> <<>>]

\* No agent has been asked for a model.
ModelIdle ==
  /\ agentClass = "openai"
  /\ groqRequest = NoRequest
  /\ workerRun = NoRun
  /\ taskManager = TaskManagerIdle
  /\ lastCall = NoCall
  /\ availableModelsCache = NoCache
  /\ modelCacheTimestamp = 0
  /\ selection = NoSelection

Init ==
  /\ pc = "start"
  /\ keys \in KeyConfigs
  /\ agentPreset = NULL
  /\ provider = NULL
  /\ now = StartTime
  /\ unit = <<>>
  /\ inner = <<>>
  /\ agentResponses = <<>>
  /\ aggregatorProvider = NULL
  /\ agentOutputs = <<>>
  /\ attempt = 0
  /\ lastError = NoText
  /\ judgeLog = <<>>
  /\ delays = <<>>
  /\ finalSynthesis = NoSynthesis
  /\ userRequest = NoText
  /\ inFlight = 0
  /\ result = NoResult
  /\ ModelIdle

\* processAllAgents up to the Promise.all over the workers (202-282).
Start ==
  /\ pc = "start"
  /\ \E p \in ProviderArgs, preset \in Presets :
       /\ provider' = p
       /\ agentPreset' = preset
       /\ LET tp == IF p # NULL THEN p ELSE getDefaultProvider IN
          IF ~presetFound(preset)
            THEN /\ pc' = "failed"
                 /\ UNCHANGED agentResponses
            ELSE IF isFallbackMode
              THEN /\ agentResponses' = [u \in Units |-> fallbackEntry(u)]
                   /\ pc' = "collect"
              ELSE IF tp = NULL
                THEN /\ pc' = "failed"
                     /\ UNCHANGED agentResponses
                ELSE /\ pc' = "spawn"
                     /\ UNCHANGED agentResponses
  /\ UNCHANGED <<modelVars, keys, now, unit, inner, aggVars>>

\* One invocation of the map callback, up to its await: the executor of
\* processAgentWithWorker runs synchronously.
Spawn ==
  /\ pc = "spawn"
  /\ \E ok \in BOOLEAN :
       unit' = Append(unit, IF ok THEN createWorker(NewUnit) ELSE createFailed(NewUnit))
  /\ inner' = Append(inner, PendingInner)
  /\ pc' = IF Len(unit) + 1 = NumTasks THEN "join" ELSE "spawn"
  /\ UNCHANGED <<modelVars, keys, agentPreset, provider, now, agentResponses, aggVars>>

\* The callback resumes after its await.
Resume(u) ==
  /\ pc = "join"
  /\ u \in 1..Len(unit)
  /\ unit[u].promise.state # "pending"
  /\ inner[u].state = "pending"
  /\ inner' = [inner EXCEPT ![u] = mapCallback(u, unit[u].promise)]
  /\ UNCHANGED <<modelVars, pc, keys, agentPreset, provider, now, unit, agentResponses, aggVars>>

\* processAllAgents resumes after `await Promise.all(...)` and returns to a
\* caller other than orchestrateWorkflow.
Join ==
  /\ pc = "join"
  /\ PromiseAllState(inner) # "pending"
  /\ IF PromiseAllState(inner) = "fulfilled"
       THEN /\ agentResponses' = PromiseAllValues(inner)
            /\ pc' = "returned"
       ELSE /\ pc' = "failed"
            /\ UNCHANGED agentResponses
  /\ UNCHANGED <<modelVars, keys, agentPreset, provider, now, unit, inner, aggVars>>

\* The same, returning into orchestrateWorkflow (367).  The units' closures
\* are dropped here: every unit is settled, and a later event of its thread
\* finds isResolved set and changes nothing the workflow reads.
JoinWorkflow ==
  /\ pc = "join"
  /\ PromiseAllState(inner) # "pending"
  /\ IF PromiseAllState(inner) = "fulfilled"
       THEN /\ agentResponses' = PromiseAllValues(inner)
            /\ pc' = "collect"
       ELSE /\ pc' = "failed"
            /\ UNCHANGED agentResponses
  /\ unit' = <<>>
  /\ inner' = <<>>
  /\ UNCHANGED <<modelVars, keys, agentPreset, provider, now, aggVars>>

\* ------------------------------------------------------------ event handlers
WorkerMessage(u) ==
  /\ ~eventLoopBlocked
  /\ u \in 1..Len(unit)
  /\ unit[u].thread = "running" /\ ~unit[u].posted /\ ~unit[u].errored
  /\ \E m \in workerMessages(targetProvider) :
       unit' = [unit EXCEPT ![u] = onMessage(@, m[1], m[2])]
  /\ UNCHANGED <<modelVars, pc, keys, agentPreset, provider, now, inner, agentResponses, aggVars>>

WorkerError(u) ==
  /\ ~eventLoopBlocked
  /\ u \in 1..Len(unit)
  /\ unit[u].thread = "running" /\ ~unit[u].errored /\ ~unit[u].killed
  /\ unit' = [unit EXCEPT ![u] = onError(@)]
  /\ UNCHANGED <<modelVars, pc, keys, agentPreset, provider, now, inner, agentResponses, aggVars>>

WorkerExit(u) ==
  /\ ~eventLoopBlocked
  /\ u \in 1..Len(unit)
  /\ unit[u].thread = "running"
  /\ \E code \in (IF unit[u].killed \/ unit[u].errored THEN {1} ELSE {0, 1}) :
       unit' = [unit EXCEPT ![u] = onExit(@, code)]
  /\ UNCHANGED <<modelVars, pc, keys, agentPreset, provider, now, inner, agentResponses, aggVars>>

TimerFires(u) ==
  /\ ~eventLoopBlocked
  /\ u \in 1..Len(unit)
  /\ timerDue(unit[u])
  /\ unit' = [unit EXCEPT ![u] = onTimeout(@)]
  /\ UNCHANGED <<modelVars, pc, keys, agentPreset, provider, now, inner, agentResponses, aggVars>>

\* Time passes (while some timer still waits for it).
Tick ==
  /\ \E u \in 1..Len(unit) : unit[u].timer = "pending" /\ ~timerDue(unit[u])
  /\ now' = now + TickMs
  /\ UNCHANGED <<modelVars, pc, keys, agentPreset, provider, unit, inner, agentResponses, aggVars>>

\* orchestrateWorkflow after processAllAgents (368-392) and aggregate up to
\* the construction of the judge (183-230).
Collect ==
  /\ pc = "collect"
  /\ \E ap \in ProviderArgs, req \in Requests :
       LET outs == collectOutputs(agentResponses, <<>>) IN
       /\ aggregatorProvider' = ap
       /\ userRequest' = req
       /\ agentOutputs' = outs
       /\ IF aggregateValidation(outs, req) # NoText
            THEN IF orchestrateCatch(agentResponses).rejects
              THEN /\ pc' = "failed"
                   /\ UNCHANGED <<finalSynthesis, result>>
              ELSE finish(orchestrateCatch(agentResponses).synthesis, ap)
            ELSE IF allAreErrors(outs) /\ Len(outs) > 0
              THEN finish(errorFallback(outs), ap)
              ELSE IF createAggregatorAgent(ap) # NULL
                THEN /\ pc' = "judge"
                     /\ UNCHANGED <<finalSynthesis, result>>
                ELSE finish(heuristicScoring(outs), ap)
  /\ UNCHANGED <<modelVars, dispVars, attempt, lastError, judgeLog, delays, inFlight>>

\* aggregate invokes aggregatorAgent.process(prompt) and awaits it (252-254).
JudgeCall ==
  /\ pc = "judge"
  /\ inFlight = 0
  /\ inFlight' = inFlight + 1
  /\ UNCHANGED <<modelVars, pc, dispVars, aggregatorProvider, agentOutputs, attempt, lastError,
                 judgeLog, delays, finalSynthesis, userRequest, result>>

\* The awaited call settles: the reply is parsed, or the catch decides
\* between another iteration and the heuristic result (256-303).
JudgeReturn ==
  /\ pc = "judge"
  /\ inFlight > 0
  /\ inFlight' = inFlight - 1
  /\ \/ \E resp \in JudgeReplies :
          /\ judgeLog' = Append(judgeLog, [ok |-> TRUE, text |-> resp])
          /\ finish(judged(agentOutputs, resp), aggregatorProvider)
          /\ UNCHANGED <<attempt, lastError>>
     \/ \E err \in JudgeErrors :
          /\ judgeLog' = Append(judgeLog, [ok |-> FALSE, text |-> err])
          /\ lastError' = err
          /\ IF shouldRetry(err, attempt)
               THEN /\ attempt' = attempt + 1
                    /\ pc' = "delay"
                    /\ UNCHANGED <<finalSynthesis, result>>
               ELSE /\ finish(heuristicScoring(agentOutputs), aggregatorProvider)
                    /\ UNCHANGED attempt
  /\ UNCHANGED <<modelVars, dispVars, aggregatorProvider, agentOutputs, delays, userRequest>>

\* The sleep at the head of a retry iteration (236-250).
RetryDelay ==
  /\ pc = "delay"
  /\ delays' = Append(delays, retryDelay(attempt, lastError))
  /\ pc' = "judge"
  /\ UNCHANGED <<modelVars, dispVars, aggregatorProvider, agentOutputs, attempt, lastError,
                 judgeLog, finalSynthesis, userRequest, inFlight, result>>

Next ==
  \/ Start
  \/ Spawn
  \/ \E u \in Units : Resume(u)
  \/ Join
  \/ JoinWorkflow
  \/ \E u \in Units : WorkerMessage(u)
  \/ \E u \in Units : WorkerError(u)
  \/ \E u \in Units : WorkerExit(u)
  \/ \E u \in Units : TimerFires(u)
  \/ Tick
  \/ Collect
  \/ JudgeCall
  \/ JudgeReturn
  \/ RetryDelay

Spec == Init /\ [][Next]_vars

\* The process() calls that have settled, and those made.
judgeCalls == Len(judgeLog)
judgeInvocations == Len(judgeLog) + inFlight

\* ------------------------------------------------------- the dispatcher alone
\* processAllAgents called on its own, with a configured provider, under the
\* fairness the event loop gives: the clock advances, a due timer's callback
\* runs, and promise reactions run.
LiveInit ==
  /\ Init
  /\ keys = {"openai"}

LiveNext ==
  \/ Start
  \/ Spawn
  \/ \E u \in Units : Resume(u)
  \/ Join
  \/ \E u \in Units : WorkerMessage(u)
  \/ \E u \in Units : WorkerError(u)
  \/ \E u \in Units : WorkerExit(u)
  \/ \E u \in Units : TimerFires(u)
  \/ Tick

LiveSpec ==
  /\ LiveInit
  /\ [][LiveNext]_vars
  /\ WF_vars(Start)
  /\ WF_vars(Spawn)
  /\ WF_vars(Join)
  /\ WF_vars(Tick)
  /\ \A u \in Units : WF_vars(Resume(u))
  /\ \A u \in Units : WF_vars(TimerFires(u))

\* ------------------------------------------------------ the aggregator alone
\* orchestrateWorkflow from the return of processAllAgents on, for every
\* result set of a job run with the openai provider: each task replied
\* (shortly or at length) or failed.
AggReplies == WorkerReplies \cup {DetailedReply, DetailedReply2}
AggFailures == WorkerFailures \cup {TimeoutMessage}
AggOutcomes == { <<TRUE, t>> : t \in AggReplies } \cup { <<FALSE, t>> : t \in AggFailures }
AggResultSets ==
  { [u \in Units |-> mapCallback(u, Fulfilled(f[u][1], f[u][2])).entry] :
      f \in [Units -> AggOutcomes] }

AggInit ==
  /\ pc = "collect"
  /\ keys \in { {"openai"}, {"groq", "openai"} }
  /\ agentPreset = "specialized"
  /\ provider = "openai"
  /\ now = StartTime
  /\ unit = <<>>
  /\ inner = <<>>
  /\ agentResponses \in AggResultSets
  /\ aggregatorProvider = NULL
  /\ agentOutputs = <<>>
  /\ attempt = 0
  /\ lastError = NoText
  /\ judgeLog = <<>>
  /\ delays = <<>>
  /\ finalSynthesis = NoSynthesis
  /\ userRequest = NoText
  /\ inFlight = 0
  /\ result = NoResult
  /\ ModelIdle

AggNext ==
  \/ Collect
  \/ JudgeCall
  \/ JudgeReturn
  \/ RetryDelay

AggSpec == AggInit /\ [][AggNext]_vars

\* ------------------------------------------------------ one agent's models
\* An agent instance asked for its best available model, again and again,
\* while time passes.
ModelInit ==
  /\ pc = "model"
  /\ keys = {"openai"}
  /\ agentPreset = NULL
  /\ provider = NULL
  /\ now = StartTime
  /\ unit = <<>>
  /\ inner = <<>>
  /\ agentResponses = <<>>
  /\ aggregatorProvider = NULL
  /\ agentOutputs = <<>>
  /\ attempt = 0
  /\ lastError = NoText
  /\ judgeLog = <<>>
  /\ delays = <<>>
  /\ finalSynthesis = NoSynthesis
  /\ userRequest = NoText
  /\ inFlight = 0
  /\ result = NoResult
  /\ agentClass \in AgentClasses
  /\ lastCall = NoCall
  /\ groqRequest = NoRequest
  /\ workerRun = NoRun
  /\ taskManager = TaskManagerIdle
  /\ availableModelsCache = NoCache
  /\ modelCacheTimestamp = 0
  /\ selection = NoSelection

\* a cache test that never looks at the age of the list
useCacheWhateverAge(forceRefresh) ==
  /\ ~forceRefresh
  /\ availableModelsCache.cached
  /\ modelCacheTimestamp # 0

\* The cache test of getBestAvailableModel (682-684).
useCache(forceRefresh) ==
  /\ ~forceRefresh
  /\ availableModelsCache.cached
  /\ modelCacheTimestamp # 0
  /\ now - modelCacheTimestamp < modelCacheTTL

\* getBestAvailableModel(forceRefresh) (680-698): the cache is used while it
\* is younger than the TTL; otherwise the list is fetched, which can fail.
GetBestAvailableModel ==
  /\ pc = "model"
  /\ \E forceRefresh \in BOOLEAN :
       LET call == [made |-> TRUE, forceRefresh |-> forceRefresh, fetched |-> TRUE,
                    fetchOk |-> FALSE, at |-> now,
                    hadCache |-> availableModelsCache.cached,
                    timestampBefore |-> modelCacheTimestamp]
       IN
       IF useCache(forceRefresh)
         THEN /\ selection' = selectBestModel(availableModelsCache.models)
              /\ lastCall' = [call EXCEPT !.fetched = FALSE]
              /\ UNCHANGED <<availableModelsCache, modelCacheTimestamp>>
         ELSE \E ok \in BOOLEAN :
                \E listed \in (IF ok THEN FetchedLists ELSE {<<>>}) :
                  LET fetch == fetchAvailableModels(ok, listed) IN
                  /\ lastCall' = [call EXCEPT !.fetchOk = ok]
                  /\ IF fetch.throws
                       THEN /\ selection' = [NoSelection EXCEPT !.best = getDefaultModel]
                            /\ UNCHANGED <<availableModelsCache, modelCacheTimestamp>>
                       ELSE /\ availableModelsCache' = Cached(fetch.models)
                            /\ modelCacheTimestamp' = now
                            /\ selection' = selectBestModel(fetch.models)
  /\ UNCHANGED <<pc, dispVars, aggVars, agentClass, groqRequest, workerRun,
                 taskManager>>

ClockAdvance ==
  /\ pc = "model"
  /\ now < StartTime + MaxCacheTicks * CacheTickMs
  /\ now' = now + CacheTickMs
  /\ UNCHANGED <<pc, keys, agentPreset, provider, unit, inner, agentResponses, aggVars, modelVars>>

ModelNext ==
  \/ GetBestAvailableModel
  \/ ClockAdvance

ModelSpec == ModelInit /\ [][ModelNext]_vars

\* ------------------------------------------------------ selectBestModel alone
\* selectBestModel called on an agent with any list of up to MaxModels ids.
SelectInit ==
  /\ pc = "select"
  /\ keys = {"openai"}
  /\ agentPreset = NULL
  /\ provider = NULL
  /\ now = StartTime
  /\ unit = <<>>
  /\ inner = <<>>
  /\ agentResponses = <<>>
  /\ aggregatorProvider = NULL
  /\ agentOutputs = <<>>
  /\ attempt = 0
  /\ lastError = NoText
  /\ judgeLog = <<>>
  /\ delays = <<>>
  /\ finalSynthesis = NoSynthesis
  /\ userRequest = NoText
  /\ inFlight = 0
  /\ result = NoResult
  /\ agentClass \in AgentClasses
  /\ lastCall = NoCall
  /\ groqRequest = NoRequest
  /\ workerRun = NoRun
  /\ taskManager = TaskManagerIdle
  /\ availableModelsCache = NoCache
  /\ modelCacheTimestamp = 0
  /\ selection = NoSelection

SelectBestModel ==
  /\ pc = "select"
  /\ \E models \in ModelLists : selection' = selectBestModel(models)
  /\ UNCHANGED <<pc, dispVars, aggVars, availableModelsCache, modelCacheTimestamp,
                 agentClass, lastCall, groqRequest, workerRun, taskManager>>

SelectSpec == SelectInit /\ [][SelectBestModel]_vars

\* ------------------------------------------------------ GroqAgent's prompts
\* this.maxInputTokens
maxInputTokens == 2000

\* estimateTokens(text): Math.ceil(text.length / 3), 0 for the empty text
estimateTokens(text) == (length(text) + 2) \div 3

first(S) == CHOOSE i \in S : \A j \in S : i <= j

\* the tokens that begin with a newline
lineBreaks == {"\n", "\n\n", "\n[Truncated]"}

\* the rest of the line that starts at position i
RECURSIVE restOfLine(_, _)
restOfLine(text, i) ==
  IF i > Len(text) \/ text[i] \in lineBreaks THEN <<>>
  ELSE <<text[i]>> \o restOfLine(text, i + 1)

\* up to the first blank line
RECURSIVE paragraph(_, _)
paragraph(text, i) ==
  IF i > Len(text) \/ text[i] = "\n\n" THEN <<>>
  ELSE <<text[i]>> \o paragraph(text, i + 1)

\* agentName and role (56-77): "AGENT: Name (Role)" first, else the
\* "Role:" line and the "AGENT:" line, each on its own.
extractAgent(prompt) ==
  LET agentMatch1 == {i \in 1..(Len(prompt) - 4) :
                        /\ prompt[i] = "AGENT: "
                        /\ prompt[i + 1] \notin lineBreaks
                        /\ prompt[i + 2] = " ("
                        /\ prompt[i + 4] = ")"}
      roleMatch == {i \in 1..(Len(prompt) - 1) :
                      prompt[i] = "Role: " /\ prompt[i + 1] \notin lineBreaks}
      agentNameMatch == {i \in 1..(Len(prompt) - 1) :
                           prompt[i] = "AGENT: " /\ prompt[i + 1] \notin lineBreaks}
  IN IF agentMatch1 # {}
       THEN [agentName |-> <<prompt[first(agentMatch1) + 1]>>,
             role |-> <<prompt[first(agentMatch1) + 3]>>]
       ELSE [agentName |-> IF agentNameMatch # {}
                             THEN <<prompt[first(agentNameMatch) + 1]>> ELSE <<>>,
             role |-> IF roleMatch # {}
                        THEN restOfLine(prompt, first(roleMatch) + 1) ELSE <<>>]

\* the "You are ..." line (79-87)
youAre(name, roleName) ==
  IF name # <<>> /\ roleName # <<>>
    THEN <<"You are ">> \o name \o <<", a ">> \o roleName \o <<".", "\n\n">>
  ELSE IF roleName # <<>> THEN <<"You are a ">> \o roleName \o <<".", "\n\n">>
  ELSE IF name # <<>> THEN <<"You are ">> \o name \o <<".", "\n\n">>
  ELSE <<>>

\* the task (89-110): what follows "Task:" up to a blank line, cut to 400
\* characters; without it the first line that holds "task:" or "request:",
\* cut to 300 characters (a line is one token here).
extractTask(prompt) ==
  LET taskMatch == {i \in 1..(Len(prompt) - 1) :
                      prompt[i] = "Task: " /\ prompt[i + 1] \notin lineBreaks}
      lines == {i \in 1..Len(prompt) :
                  "task:" \in TokenHas(prompt[i]) \/ "request:" \in TokenHas(prompt[i])}
  IN IF taskMatch # {}
       THEN LET task == paragraph(prompt, first(taskMatch) + 1) IN
            <<"Task: ">>
            \o (IF length(task) > 400 THEN substring(task, 397) \o <<"...">> ELSE task)
            \o <<"\n\n">>
     ELSE IF lines # {}
       THEN LET line == <<prompt[first(lines)]>> IN
            (IF length(line) > 300 THEN substring(line, 297) \o <<"...">> ELSE line)
            \o <<"\n\n">>
     ELSE <<>>

\* the last resort of truncatePrompt (120-128)
lastResort(text) ==
  LET roleStart == {i \in 1..Len(text) : text[i] \in {"You are ", "You are a "}}
      taskStart == {i \in 1..(Len(text) - 1) :
                      text[i] = "Task: " /\ text[i + 1] \notin lineBreaks}
      roleLine == IF roleStart # {} THEN restOfLine(text, first(roleStart)) ELSE <<>>
      taskLine == IF taskStart # {} THEN restOfLine(text, first(taskStart)) ELSE <<>>
      minimalPrompt == roleLine \o <<"\n\n">> \o taskLine
                       \o <<"\n\n", "Provide brief analysis.">>
  IN IF estimateTokens(minimalPrompt) <= maxInputTokens
       THEN minimalPrompt
       ELSE substring(text, (maxInputTokens - 100) * 3)

\* a reduction without the hard limit and the final verification
truncatePromptUnlimited(prompt) ==
  LET agent == extractAgent(prompt)
  IN youAre(agent.agentName, agent.role) \o extractTask(prompt)
     \o <<"Provide a concise analysis and recommendations. Keep response under 250 tokens.",
          "\n">>

\* truncatePrompt(prompt) (44-131): estimatedTokens is computed and not read.
truncatePrompt(prompt) ==
  LET estimatedTokens == estimateTokens(prompt)
      maxChars == (maxInputTokens - 300) * 3
      agent == extractAgent(prompt)
      built == youAre(agent.agentName, agent.role) \o extractTask(prompt)
               \o <<"Provide a concise analysis and recommendations. Keep response under 250 tokens.",
                    "\n">>
      limited == IF length(built) > maxChars
                   THEN substring(built, maxChars - 50) \o <<"\n[Truncated]">>
                   ELSE built
  IN IF estimateTokens(limited) > maxInputTokens THEN lastResort(limited) ELSE limited

\* The prompts handed to process: the header lines of processAgent, the task
\* line of the guidelines, up to MaxBlocks blocks of guidelines and context,
\* and the closing line.
MaxBlocks == 3

Headers ==
  { <<"AGENT: ", "PlannerAgent", " (", "Planner", ")", "\n">>,
    <<"AGENT: ", "PlannerAgent", "\n", "Role: ", "Planner", "\n">>,
    <<"AGENT: ", "PlannerAgent", "\n">>,
    <<"Role: ", "Planner", "\n">>,
    <<"Role: ", "(5040 characters of a role)", "(960 more characters of it)", "\n">>,
    <<>> }

TaskLines ==
  { <<"Task: ", "Add login", "\n\n">>,
    <<"Task: ", "(397 characters of a long task)", "(103 more characters of it)", "\n\n">>,
    <<"User Request: Add login", "\n">>,
    <<>> }

RECURSIVE blocks(_)
blocks(n) ==
  IF n = 0 THEN <<>> ELSE <<"(2400 characters of guidelines)", "\n\n">> \o blocks(n - 1)

Closings == { <<"--- AGENT OUTPUT REQUEST ---">>, <<>> }

GroqPrompts ==
  { h \o t \o blocks(n) \o c :
      h \in Headers, t \in TaskLines, n \in 0..MaxBlocks, c \in Closings }

GroqInit ==
  /\ pc = "groq"
  /\ keys = {"groq"}
  /\ agentPreset = NULL
  /\ provider = NULL
  /\ now = StartTime
  /\ unit = <<>>
  /\ inner = <<>>
  /\ agentResponses = <<>>
  /\ aggregatorProvider = NULL
  /\ agentOutputs = <<>>
  /\ attempt = 0
  /\ lastError = NoText
  /\ judgeLog = <<>>
  /\ delays = <<>>
  /\ finalSynthesis = NoSynthesis
  /\ userRequest = NoText
  /\ inFlight = 0
  /\ result = NoResult
  /\ agentClass = "groq"
  /\ lastCall = NoCall
  /\ availableModelsCache = NoCache
  /\ modelCacheTimestamp = 0
  /\ selection = NoSelection
  /\ groqRequest = NoRequest
  /\ workerRun = NoRun
  /\ taskManager = TaskManagerIdle

\* options.maxTokens as given to the constructor and to process (0 when absent)
MaxTokensOptions == {0, 100, 4096}

\* max_tokens of the request body: the constructor keeps
\* Math.min(options.maxTokens || 256, 512) (16), process posts
\* Math.min(options.maxTokens || this.options.maxTokens || 256, 512) (183).
requestMaxTokens(constructed, given) ==
  LET kept == min(IF constructed # 0 THEN constructed ELSE 256, 512)
  IN min(IF given # 0 THEN given ELSE IF kept # 0 THEN kept ELSE 256, 512)

\* new GroqAgent(key, options).process(prompt, options) (10-24, 179-205): the
\* request body carries truncatePrompt(prompt), whatever the estimate of
\* prompt is, and max_tokens.
GroqProcess ==
  /\ pc = "groq"
  /\ \E prompt \in GroqPrompts, constructed \in MaxTokensOptions, given \in MaxTokensOptions :
       groqRequest' = [made |-> TRUE, prompt |-> prompt, posted |-> truncatePrompt(prompt),
                       max_tokens |-> requestMaxTokens(constructed, given)]
  /\ UNCHANGED <<pc, dispVars, aggVars, availableModelsCache, modelCacheTimestamp,
                 selection, agentClass, lastCall, workerRun, taskManager>>

GroqSpec == GroqInit /\ [][GroqProcess]_vars

\* ------------------------------------------------------ one worker thread
\* One unit from the creation of its worker to its entry in the result set.
\* workerData as the dispatcher passes it, and workerData that fails the
\* worker's own validation.
WorkerDataSets ==
  { workerData(u, p) : u \in Units, p \in PROVIDERS }
  \cup { [workerData(1, "openai") EXCEPT !.agentConfig = NULL],
         [workerData(1, "openai") EXCEPT !.prompt = <<" ">>],
         workerData(1, NULL) }

WorkerInit ==
  /\ pc = "worker"
  /\ keys \in KeyConfigs \ {{}}
  /\ agentPreset = NULL
  /\ provider = NULL
  /\ now = StartTime
  /\ unit = <<>>
  /\ inner = <<>>
  /\ agentResponses = <<>>
  /\ aggregatorProvider = NULL
  /\ agentOutputs = <<>>
  /\ attempt = 0
  /\ lastError = NoText
  /\ judgeLog = <<>>
  /\ delays = <<>>
  /\ finalSynthesis = NoSynthesis
  /\ userRequest = NoText
  /\ inFlight = 0
  /\ result = NoResult
  /\ ModelIdle

\* The worker runs processAgent to its end ("answered": the backend call
\* returned or threw), or the deadline or an 'error' event comes first. The
\* dispatcher's handlers settle the unit and the map callback makes the entry.
AgentWorkerRun ==
  /\ pc = "worker"
  /\ ~workerRun.ran
  /\ \E data \in WorkerDataSets, o \in BackendOutcomes \cup OtherBackendOutcomes,
        backend \in {"answered", "hangs", "crashes"} :
       LET posted == IF backend = "answered" THEN processAgent(data, o) ELSE <<>>
           created == createWorker(NewUnit)
           settled == CASE backend = "hangs" -> onTimeout(created)
                        [] backend = "crashes" -> onExit(onError(created), 1)
                        [] OTHER -> onExit(IF posted = <<>> THEN created
                                           ELSE onMessage(created, posted[1][1], posted[1][2]),
                                           0)
       IN workerRun' = [ran |-> TRUE, data |-> data, backend |-> backend, outcome |-> o,
                        posted |-> posted,
                        entry |-> mapCallback(data.unit, settled.promise).entry]
  /\ UNCHANGED <<pc, dispVars, aggVars, availableModelsCache, modelCacheTimestamp,
                 selection, agentClass, lastCall, groqRequest, taskManager>>

WorkerSpec == WorkerInit /\ [][AgentWorkerRun]_vars

\* ------------------------------------------------- taskManager.getAgents
\* Concurrent calls of getAgents: each runs to its await in one step and
\* resumes, in any order, when its read of the configuration is done.
MaxCalls == 3

CachePresets == {"specialized", "frontend", "nonexistent"}

\* getAgentsByPreset(presetName) (agentConfigLoader.js 80-92): the preset's
\* agents, or an error for a preset the configuration does not have.
getAgentsByPreset(presetName) ==
  CASE presetName = "specialized" ->
         [throws |-> FALSE, agents |-> [loaded |-> TRUE, names |-> getAgents]]
    [] presetName = "frontend" ->
         [throws |-> FALSE,
          agents |-> [loaded |-> TRUE, names |-> <<"frontend agent 1", "frontend agent 2">>]]
    [] OTHER -> [throws |-> TRUE, agents |-> TaskManagerIdle.agentsCache]

\* a continuation that stores the list and leaves currentPreset alone
storeAgentsOnly(tm, presetName, agents) == [tm EXCEPT !.agentsCache = agents]

\* The continuation of getAgents after its await (24-25).
storeAgents(tm, presetName, agents) ==
  [tm EXCEPT !.agentsCache = agents, !.currentPreset = presetName]

\* getAgents(presetName) up to its return or its await (19-24).
GetAgentsCall ==
  /\ pc = "agents"
  /\ Len(taskManager.calls) < MaxCalls
  /\ \E presetName \in CachePresets :
       taskManager' =
         [taskManager EXCEPT !.calls =
            Append(@, IF taskManager.agentsCache.loaded
                         /\ taskManager.currentPreset = presetName
                        THEN [preset |-> presetName, state |-> "returned",
                              value |-> taskManager.agentsCache]
                        ELSE [preset |-> presetName, state |-> "awaiting",
                              value |-> TaskManagerIdle.agentsCache])]
  /\ UNCHANGED <<pc, dispVars, aggVars, availableModelsCache, modelCacheTimestamp,
                 selection, agentClass, lastCall, groqRequest, workerRun>>

\* getAgentsByPreset settles and call c resumes (24-26).
GetAgentsResume(c) ==
  /\ pc = "agents"
  /\ c \in 1..Len(taskManager.calls)
  /\ taskManager.calls[c].state = "awaiting"
  /\ LET presetName == taskManager.calls[c].preset
         loaded == getAgentsByPreset(presetName)
     IN IF loaded.throws
          THEN taskManager' = [taskManager EXCEPT !.calls[c].state = "rejected"]
          ELSE LET stored == storeAgents(taskManager, presetName, loaded.agents) IN
               taskManager' = [stored EXCEPT !.calls[c].state = "returned",
                                             !.calls[c].value = stored.agentsCache]
  /\ UNCHANGED <<pc, dispVars, aggVars, availableModelsCache, modelCacheTimestamp,
                 selection, agentClass, lastCall, groqRequest, workerRun>>

CacheInit ==
  /\ pc = "agents"
  /\ keys = {"openai"}
  /\ agentPreset = NULL
  /\ provider = NULL
  /\ now = StartTime
  /\ unit = <<>>
  /\ inner = <<>>
  /\ agentResponses = <<>>
  /\ aggregatorProvider = NULL
  /\ agentOutputs = <<>>
  /\ attempt = 0
  /\ lastError = NoText
  /\ judgeLog = <<>>
  /\ delays = <<>>
  /\ finalSynthesis = NoSynthesis
  /\ userRequest = NoText
  /\ inFlight = 0
  /\ result = NoResult
  /\ ModelIdle

CacheNext ==
  \/ GetAgentsCall
  \/ \E c \in 1..MaxCalls : GetAgentsResume(c)

CacheSpec == CacheInit /\ [][CacheNext]_vars

\* ---------------------------------------------------------------- properties
hasReturned == pc \in {"returned", "collect", "judge", "delay", "done"}
spawnedUnits == 1..Len(unit)
allFailed == Len(agentResponses) = NumTasks
             /\ \A i \in 1..NumTasks : ~agentResponses[i].success

\* C1: once units are dispatched processAllAgents never rejects, and the
\* array it returns has exactly NumTasks entries, one for each task.
C1_ResultSetComplete ==
  /\ Len(unit) > 0 => pc # "failed"
  /\ hasReturned =>
       /\ Len(agentResponses) = NumTasks
       /\ {agentResponses[i].agent : i \in 1..Len(agentResponses)}
            = {agentName(u) : u \in Units}

\* A returned job in which one unit timed out and another could not be created.
C1_Witness ==
  /\ pc = "returned"
  /\ \E u \in spawnedUnits : unit[u].promise.cls = "TimeoutError"
  /\ \E u \in spawnedUnits : unit[u].promise.text = CreateFailedMessage

\* C2: entry i of the returned array carries the i-th task's name and is the
\* outcome of the i-th unit, whatever the order of the settlements.
C2_SubmissionOrder ==
  /\ hasReturned =>
       \A i \in 1..Len(agentResponses) : agentResponses[i].agent = agentName(i)
  /\ pc = "returned" =>
       \A i \in 1..Len(agentResponses) :
          /\ agentResponses[i].success =
               (unit[i].promise.state = "fulfilled" /\ unit[i].promise.success)
          /\ agentResponses[i].success => agentResponses[i].actualResponse = unit[i].promise.text
          /\ ~agentResponses[i].success => agentResponses[i].error = unit[i].promise.text

\* Unit 2 settled first (its worker could not be created, so it settled
\* before any event was taken) and failed; unit 1 settled later and succeeded.
C2_Witness ==
  /\ pc = "returned"
  /\ unit[2].thread = "none"
  /\ ~agentResponses[2].success
  /\ agentResponses[1].success
  /\ agentResponses[1].actualResponse = <<"ok">>

\* C3: the first signal of a unit settles it with that signal's outcome; a
\* signal handled once the unit is settled changes neither the outcome nor the
\* number of settlements, which is never more than one.
C3_Step(a, b) ==
  /\ b.settleCalls <= 1
  /\ b.isResolved = (b.promise.state # "pending")
  /\ b.isResolved = (b.settleCalls = 1)
  /\ a.isResolved =>
       /\ b.isResolved
       /\ b.promise = a.promise
       /\ b.settleCalls = a.settleCalls
  /\ (~a.isResolved /\ ~a.posted /\ b.posted) => b.promise.state = "fulfilled"
  /\ (~a.isResolved /\ a.timer = "pending" /\ b.timer = "fired") =>
       b.promise = Rejected("TimeoutError", TimeoutMessage)
  /\ (~a.isResolved /\ ~a.errored /\ b.errored) =>
       b.promise = Rejected("WorkerError", WorkerErrorMessage)
  /\ (~a.isResolved /\ a.thread = "running" /\ b.thread = "exited") =>
       /\ b.promise.cls = "WorkerError"
       /\ b.promise.text \in {ExitCodeMessage(1), ExitNoMessage}

C3_OneShot ==
  [][\A u \in spawnedUnits : u <= Len(unit') => C3_Step(unit[u], unit'[u])]_vars

\* A unit settled by its deadline whose worker's reply and exit arrived later.
C3_Witness ==
  \E u \in spawnedUnits :
    /\ unit[u].promise.cls = "TimeoutError"
    /\ unit[u].posted
    /\ unit[u].thread = "exited"
    /\ unit[u].settleCalls = 1

\* C4 as stated: every settled unit has had its timer cleared exactly once and
\* its worker terminated exactly once, and holds neither afterwards.
C4_Original ==
  \A u \in spawnedUnits :
    unit[u].isResolved =>
      /\ unit[u].clearCalls = 1
      /\ unit[u].terminateCalls = 1
      /\ unit[u].timer # "pending"
      /\ unit[u].worker = "null"
      /\ unit[u].timeoutId = "null"

\* C4, amended: cleanup runs exactly once per settled unit; a unit whose
\* worker was created has its timer cleared exactly once and its worker
\* terminated exactly once; a unit whose worker could not be created has no
\* timer and no worker, and none is cleared or terminated; in both cases no
\* timer is pending and no handle is held after settlement, and nothing is
\* released before settlement.
C4_CleanupOnce ==
  \A u \in spawnedUnits :
    /\ unit[u].isResolved =>
         /\ unit[u].settleCalls = 1
         /\ unit[u].timer # "pending"
         /\ unit[u].worker = "null"
         /\ unit[u].timeoutId = "null"
         /\ unit[u].thread # "none" =>
              unit[u].clearCalls = 1 /\ unit[u].terminateCalls = 1
         /\ unit[u].thread = "none" =>
              unit[u].clearCalls = 0 /\ unit[u].terminateCalls = 0 /\ unit[u].timer = "none"
    /\ ~unit[u].isResolved =>
         /\ unit[u].clearCalls = 0 /\ unit[u].terminateCalls = 0
         /\ unit[u].worker = "held" /\ unit[u].timer = "pending"

\* A unit settled by its worker's reply, whose worker has since exited.
C4_Witness ==
  \E u \in spawnedUnits :
    /\ unit[u].promise.state = "fulfilled"
    /\ unit[u].promise.success
    /\ unit[u].thread = "exited"
    /\ unit[u].clearCalls = 1
    /\ unit[u].terminateCalls = 1

\* C5: a unit is settled with the deadline error only by a step taken when
\* at least timeoutMs have passed since its timer was armed; a unit that has
\* handled a signal of its worker before the timer fired never gets the
\* deadline error; and a settled unit whose worker was created and has sent
\* no message, raised no error and not exited has the deadline error.
silent(s) == s.thread = "running" /\ ~s.posted /\ ~s.errored

C5_Step(a, b) ==
  /\ (a.promise.state = "pending" /\ b.promise.cls = "TimeoutError") =>
       /\ a.armedAt >= 0
       /\ now - a.armedAt >= timeoutMs
       /\ b.promise.text = TimeoutMessage
  /\ (a.promise.cls # "TimeoutError" /\ (a.posted \/ a.errored \/ a.thread # "running")) =>
       b.promise.cls # "TimeoutError"
  /\ (b.isResolved /\ silent(b)) => b.promise.cls = "TimeoutError"

C5_Deadline ==
  [][\A u \in spawnedUnits : u <= Len(unit') => C5_Step(unit[u], unit'[u])]_vars

\* A returned job with a silent unit: its entry is the deadline error, and
\* timeoutMs have passed since its timer was armed.
C5_Witness ==
  /\ pc = "returned"
  /\ \E u \in spawnedUnits :
       /\ silent(unit[u])
       /\ agentResponses[u].error = TimeoutMessage
       /\ now - unit[u].armedAt >= timeoutMs

\* C6: processAllAgents returns only when every unit is settled and every
\* callback has produced its entry, it never rejects, a step of one unit
\* changes nothing of another unit, and a rejected unit becomes its own
\* task's entry with success = false.
C6_Step ==
  /\ (pc = "join" /\ pc' # "join") =>
       /\ pc' \in {"returned", "collect"}
       /\ Len(unit) = NumTasks
       /\ \A u \in spawnedUnits : unit[u].isResolved /\ inner[u].state = "fulfilled"
       /\ \A u \in spawnedUnits :
            unit[u].promise.state = "rejected" =>
              /\ agentResponses'[u].agent = agentName(u)
              /\ ~agentResponses'[u].success
              /\ agentResponses'[u].error = unit[u].promise.text
  /\ pc' = "failed" => Len(unit) = 0
  /\ \A u \in spawnedUnits : \A v \in spawnedUnits :
       (u # v /\ Len(unit') = Len(unit) /\ unit'[u] # unit[u]) =>
          /\ unit'[v] = unit[v]
          /\ inner' = inner

C6_WaitForAll == [][C6_Step]_vars

\* A returned job in which unit 1's worker raised an error and unit 2's
\* worker, still running at that time, replied afterwards.
C6_Witness ==
  /\ pc = "returned"
  /\ unit[1].errored
  /\ unit[1].promise = Rejected("WorkerError", WorkerErrorMessage)
  /\ agentResponses[2].success

\* C7: with the timer fair, every spawned unit is eventually settled, and a
\* job that has begun to spawn its units always reaches the return of
\* processAllAgents.
C7_JoinCompletes ==
  /\ \A u \in Units : (Len(unit) >= u) ~> (Len(unit) >= u /\ unit[u].isResolved)
  /\ (pc \in {"spawn", "join"}) ~> (pc = "returned")

\* Every worker stayed silent and the job returned, every entry a deadline error.
C7_Witness ==
  /\ pc = "returned"
  /\ \A u \in Units : silent(unit[u]) /\ agentResponses[u].error = TimeoutMessage

allRateLimited ==
  /\ judgeLog # <<>>
  /\ \A i \in 1..Len(judgeLog) : ~judgeLog[i].ok /\ isRateLimit(judgeLog[i].text)

C9_RateLimitRetries ==
  allRateLimited =>
    /\ judgeCalls <= maxRetries + 1
    /\ pc \in {"delay", "judge", "done"}
    /\ pc = "done" =>
         /\ judgeCalls = maxRetries + 1
         /\ finalSynthesis.method = "heuristic"
    /\ pc # "done" => judgeCalls <= maxRetries

\* Three rate-limited calls, then the heuristic result.
C9_Witness ==
  /\ pc = "done"
  /\ allRateLimited
  /\ judgeCalls = 3
  /\ Len(delays) = 2
  /\ finalSynthesis.method = "heuristic"

\* C10: a judge call that fails with an error that is not rate-limit
\* classified is the last call, no delay follows it, and the result is the
\* heuristic one.
C10_NoRetryOnOtherError ==
  \A i \in 1..Len(judgeLog) :
    (~judgeLog[i].ok /\ ~isRateLimit(judgeLog[i].text)) =>
      /\ i = Len(judgeLog)
      /\ Len(delays) = i - 1
      /\ pc = "done"
      /\ finalSynthesis.method = "heuristic"

\* A rate-limited call, one delay, then a call failing with another error.
C10_Witness ==
  /\ pc = "done"
  /\ Len(judgeLog) = 2
  /\ isRateLimit(judgeLog[1].text)
  /\ ~judgeLog[2].ok /\ ~isRateLimit(judgeLog[2].text)
  /\ Len(delays) = 1
  /\ finalSynthesis.method = "heuristic"

\* The heuristic path was taken: aggregate returned heuristicScoring's result.
heuristicResult == pc = "done" /\ finalSynthesis.method = "heuristic"
winnerIndex ==
  CHOOSE i \in 1..Len(agentOutputs) : agentOutputs[i].name = finalSynthesis.winner
scoreOf(i) == score(agentOutputs[i].text)
isMaxScore(i) == \A j \in 1..Len(agentOutputs) : scoreOf(j) <= scoreOf(i)

\* C11 as stated: the heuristic winner has the maximum score and no task
\* before it in input order has that score.
C11_Original ==
  heuristicResult =>
    /\ \E i \in 1..Len(agentOutputs) : agentOutputs[i].name = finalSynthesis.winner
    /\ isMaxScore(winnerIndex)
    /\ \A j \in 1..(winnerIndex - 1) : scoreOf(j) < scoreOf(winnerIndex)

\* C11, amended: the heuristic winner has the maximum score and no task
\* after it in input order has that score (of several tasks sharing the
\* maximum, the last one wins).
C11_LastOfTiesWins ==
  heuristicResult =>
    /\ \E i \in 1..Len(agentOutputs) : agentOutputs[i].name = finalSynthesis.winner
    /\ isMaxScore(winnerIndex)
    /\ \A j \in (winnerIndex + 1)..Len(agentOutputs) : scoreOf(j) < scoreOf(winnerIndex)

\* Two different replies share the maximum score, which is not zero, and the
\* later one is the winner.
C11_Witness ==
  /\ heuristicResult
  /\ agentOutputs[1].text = DetailedReply
  /\ agentOutputs[2].text = DetailedReply2
  /\ scoreOf(1) = scoreOf(2) /\ scoreOf(1) > 0
  /\ isMaxScore(1)
  /\ finalSynthesis.winner = agentOutputs[2].name

\* aggregate returned (its argument checks passed) without a judge: no
\* judge could be constructed, and not every entry was error-shaped.
noJudgeResult ==
  /\ pc = "done"
  /\ aggregateValidation(agentOutputs, userRequest) = NoText
  /\ createAggregatorAgent(aggregatorProvider) = NULL
  /\ ~allAreErrors(agentOutputs)

\* A text with the length-band bonus and two structural bonuses, and the
\* other texts of the example: a failed task's error text, the reply "ok".
earnsBonuses(text) ==
  /\ length(text) > 200 /\ length(text) < 2000
  /\ includes(text, "-") \/ includes(text, "*")
  /\ includes(text, "\n\n")
errorOrShort(text) ==
  \/ text \in { <<"Error:", " ">> \o e : e \in AggFailures }
  \/ text = <<"ok">>

Alpha == <<"alpha", "-", "2", ".", "0">>
AlphaMini == <<"alpha", "-", "2", ".", "0", "-", "mini">>
EmbedSmall == <<"embed", "-", "small">>
signalsNonConversational(name) ==
  \/ name = EmbedSmall
  \/ ~isChatModel(name)
position(seq, x) == CHOOSE i \in 1..Len(seq) : seq[i] = x
outranks(a, b) ==
  /\ \E i \in 1..Len(selection.sorted) : selection.sorted[i] = a
  /\ \E i \in 1..Len(selection.sorted) : selection.sorted[i] = b
  /\ position(selection.sorted, a) < position(selection.sorted, b)

\* C14 as stated: selectBestModel ranks no candidate whose name signals a
\* non-conversational capability, and a name without an economy marker
\* outranks the same name with one; for the list alpha-2.0, alpha-2.0-mini,
\* embed-small the embedding id is excluded and alpha-2.0 outranks
\* alpha-2.0-mini.
C14_Original ==
  selection.called =>
    /\ \A i \in 1..Len(selection.chatModels) :
         ~signalsNonConversational(selection.chatModels[i])
    /\ \A i \in 1..Len(selection.models) :
         ~signalsNonConversational(selection.models[i]) =>
            \E j \in 1..Len(selection.sorted) : selection.sorted[j] = selection.models[i]
    /\ ( /\ \E i \in 1..Len(selection.chatModels) : selection.chatModels[i] = Alpha
         /\ \E i \in 1..Len(selection.chatModels) : selection.chatModels[i] = AlphaMini )
       => outranks(Alpha, AlphaMini)
    /\ selection.models = <<Alpha, AlphaMini, EmbedSmall>> =>
         /\ selection.sorted = <<Alpha, AlphaMini>>
         /\ selection.best = Alpha

\* ------------------------------------------------------------------- C15
\* The methods aggregate itself stamps (part_000: 171, 221, 265, 279).
aggregateMethods == {"llm", "heuristic", "error_fallback"}
inAggregation == pc \in {"collect", "judge", "delay"}

\* C15 as stated: every job that reaches aggregation ends with a non-null
\* synthesis whose method is one of judged, heuristic, error-fallback.
C15_Original ==
  pc = "done" =>
    /\ finalSynthesis # NoSynthesis
    /\ finalSynthesis.method \in aggregateMethods

C15_Step ==
  \* a failure inside aggregation does not reach the caller
  /\ inAggregation => pc' \in {"judge", "delay", "done"}
  \* the synthesis is produced once
  /\ finalSynthesis # NoSynthesis => finalSynthesis' = finalSynthesis
  /\ pc' = "done" =>
       /\ finalSynthesis' # NoSynthesis
       /\ result'.returned
       /\ result'.finalSynthesis.method = finalSynthesis'.method
       /\ finalSynthesis'.method \in aggregateMethods \cup {"fallback"}
       /\ finalSynthesis'.method = "fallback"
            <=> aggregateValidation(agentOutputs', userRequest') # NoText
       /\ finalSynthesis'.method = "fallback"
            => finalSynthesis'.winner = agentResponses'[1].agent

\* C15 (amended): every job that reaches aggregation yields exactly one
\* non-null synthesis; its method is judged, heuristic or error-fallback when
\* aggregate returns, and 'fallback' (winner: the first task's name) exactly
\* when aggregate throws, which it does on a blank request; no failure inside
\* aggregation reaches the caller.
C15_NeverPropagates == [][C15_Step]_vars

C15_Witness ==
  /\ pc = "done"
  /\ finalSynthesis.method = "fallback"
  /\ length(trim(userRequest)) = 0
  /\ result.returned

\* ------------------------------------------------------------------- C16
settledUnits == {u \in 1..Len(unit) : unit[u].promise.state # "pending"}
completeResultSet(rs) ==
  /\ Len(rs) = NumTasks
  /\ \A i \in 1..NumTasks : rs[i].agent = agentName(i)

C16_Step ==
  \* orchestrateWorkflow goes on to aggregation only with every unit settled
  /\ (pc # "collect" /\ pc' = "collect") =>
       /\ completeResultSet(agentResponses')
       /\ settledUnits = 1..Len(unit)
       /\ Len(unit) = NumTasks \/ (isFallbackMode /\ Len(unit) = 0)
  \* a judge call starts with the result set complete, no unit unsettled and
  \* no other judge call awaited
  /\ inFlight' > inFlight =>
       /\ inFlight = 0
       /\ completeResultSet(agentResponses)
       /\ Len(agentOutputs) = NumTasks
       /\ settledUnits = 1..Len(unit)
  /\ inFlight' <= 1
  \* the result set is not touched while aggregation runs
  /\ pc \in {"collect", "judge", "delay"} => agentResponses' = agentResponses

\* C16: aggregation starts only once all NumTasks units have settled and the
\* complete result set exists; a judge call is never made while a unit is
\* unsettled, and never while another judge call is awaited.
C16_AggregateAfterJoin == [][C16_Step]_vars

\* A second judge call is awaited, after a first one failed and the delay was
\* slept, in a job whose units ran in worker threads.
C16_Witness ==
  /\ pc = "judge"
  /\ inFlight = 1
  /\ Len(judgeLog) = 1
  /\ Len(delays) = 1
  /\ completeResultSet(agentResponses)
  /\ \E i \in 1..NumTasks : ~agentResponses[i].fallbackMode /\ agentResponses[i].success

\* ------------------------------------------------------------------- C17
C17_Step ==
  \* orchestrateWorkflow rejects only from its start, before the first spawn
  /\ (pc # "failed" /\ pc' = "failed") => (pc = "start" /\ Len(unit) = 0)
  /\ Len(unit) > 0 => pc' # "failed"
  \* past the start it ends by returning the result set and a synthesis
  /\ (pc \notin {"start", "failed", "returned"} /\ pc' \notin {"returned"}) =>
       /\ pc' \in {"spawn", "join", "collect", "judge", "delay", "done"}
       /\ pc' = "done" =>
            /\ result'.returned
            /\ Len(result'.agents) = NumTasks
            /\ result'.finalSynthesis.method # "none"
            /\ result'.finalSynthesis.synthesis # NoText

\* C17: orchestrateWorkflow rejects only because of an error raised before
\* any unit is spawned; once a unit has been spawned it never rejects, and
\* when it ends it returns the result set together with a synthesis.
C17_FailsOnlyBeforeSpawn == [][C17_Step]_vars

\* A job that returned although every unit failed, one of them by its
\* deadline, and aggregate threw.
C17_Witness ==
  /\ pc = "done"
  /\ result.returned
  /\ allFailed
  /\ \E i \in 1..NumTasks : agentResponses[i].error = TimeoutMessage
  /\ finalSynthesis.method = "fallback"

\* ------------------------------------------------------------------- C18
\* The provider aggregate builds its judge for.
judgeProvider == createAggregatorAgent(aggregatorProvider)

\* C18 as stated: when no aggregatorProvider is given, the judge that is
\* invoked is built for the provider the agents used, and the returned
\* workflow.aggregatorProvider names that same provider.
C18_Original ==
  (aggregatorProvider = NULL /\ judgeInvocations > 0) =>
    /\ judgeProvider = targetProvider
    /\ pc = "done" => result.workflow.aggregatorProvider = judgeProvider

\* ------------------------------------------------------------------- C19
noKeyConfigured == keys = {}
fallbackResultSet(rs) ==
  /\ Len(rs) = NumTasks
  /\ \A i \in 1..NumTasks :
       /\ rs[i].agent = agentName(i)
       /\ rs[i].success
       /\ rs[i].fallbackMode
       /\ rs[i].error = NoText
       /\ Head(rs[i].actualResponse) = "[FALLBACK MODE] This is the generated prompt for "
       /\ \E k \in 1..Len(rs[i].actualResponse) :
            SubSeq(rs[i].actualResponse, k, k + Len(promptOf(i)) - 1) = promptOf(i)

C19_Step ==
  noKeyConfigured =>
    \* no worker is spawned and no judge is invoked
    /\ Len(unit') = 0
    /\ inFlight' = 0 /\ judgeLog' = <<>>
    \* a job whose preset exists goes on to aggregation, and from there returns
    /\ (pc = "start" /\ pc' # "start") =>
         IF presetFound(agentPreset') THEN pc' = "collect" ELSE pc' = "failed"
    /\ pc = "collect" => pc' = "done"
    /\ pc' \in {"collect", "done"} => fallbackResultSet(agentResponses')
    /\ pc' = "done" =>
         /\ result'.returned
         /\ Len(result'.agents) = NumTasks
         /\ \A i \in 1..NumTasks :
              /\ result'.agents[i].agent = agentName(i)
              /\ result'.agents[i].success
              /\ result'.agents[i].actualResponse = agentResponses'[i].actualResponse

\* C19: with no API key configured a job whose preset exists is carried to
\* its end: no worker is spawned, no judge is invoked, and the result set has
\* NumTasks entries in task order, each with success = true and a response
\* that is the task's prompt marked as fallback.
C19_FallbackMode == [][C19_Step]_vars

\* A job that returned in fallback mode although a provider was named.
C19_Witness ==
  /\ noKeyConfigured
  /\ pc = "done"
  /\ provider = "openai"
  /\ result.returned
  /\ fallbackResultSet(agentResponses)
  /\ finalSynthesis.method = "heuristic"

\* ------------------------------------------------------------------- C20
successCount == Cardinality({i \in 1..Len(agentResponses) : agentResponses[i].success})

\* C20: in every result orchestrateWorkflow returns, successfulAgents is the
\* number of entries with success = true, and successfulAgents + failedAgents
\* = processedAgents = totalAgents = NumTasks.
C20_CountsConsistent ==
  result.returned =>
    /\ result.workflow.successfulAgents = successCount
    /\ result.workflow.successfulAgents
         = Cardinality({i \in 1..Len(result.agents) : result.agents[i].success})
    /\ result.workflow.successfulAgents + result.workflow.failedAgents
         = result.workflow.processedAgents
    /\ result.workflow.processedAgents = result.workflow.totalAgents
    /\ result.workflow.totalAgents = NumTasks
    /\ Len(result.agents) = NumTasks

\* A returned result that counts one success and one failure.
C20_Witness ==
  /\ result.returned
  /\ result.workflow.successfulAgents = 1
  /\ result.workflow.failedAgents = 1
  /\ result.workflow.totalAgents = NumTasks

\* ------------------------------------------------------------------- C21
\* Reading a property of an object, as formatCommitteeResponse reads
\* agent.error (responseFormatter.js: 40): a property the object does not
\* have reads as undefined, here NoText.
property(obj, name) == IF name \in DOMAIN obj THEN obj[name] ELSE NoText

\* C21 as stated: the entry orchestrateWorkflow exposes for a failed task has
\* success = false and that task's error message, and the entry for a
\* successful task has its output text.
C21_Original ==
  result.returned =>
    \A i \in 1..Len(agentResponses) :
      /\ result.agents[i].agent = agentResponses[i].agent
      /\ result.agents[i].success = agentResponses[i].success
      /\ agentResponses[i].success =>
           result.agents[i].actualResponse = agentResponses[i].actualResponse
      /\ ~agentResponses[i].success =>
           property(result.agents[i], "error") = agentResponses[i].error

\* ------------------------------------------------------------------- C22
C22_Step ==
  \* a spawn adds one unit and reads nothing of the units spawned before it
  /\ Len(unit') > Len(unit) =>
       /\ pc = "spawn"
       /\ Len(unit') = Len(unit) + 1
       /\ \A u \in 1..Len(unit) : unit'[u] = unit[u]
       /\ inner'[Len(unit')] = PendingInner
  \* while units remain to be spawned nothing happens to a unit but the next
  \* spawn (time may pass)
  /\ pc = "spawn" =>
       /\ Len(unit) < NumTasks
       /\ <<unit, inner>>' = <<unit, inner>> \/ Len(unit') = Len(unit) + 1
  \* no signal of a unit is handled, and no callback resumes from its await,
  \* before every unit is spawned
  /\ (Len(unit') = Len(unit) /\ Len(unit) > 0 /\ <<unit, inner>>' # <<unit, inner>>) =>
       Len(unit) = NumTasks
  /\ (pc = "spawn" /\ pc' # "spawn") => (pc' = "join" /\ Len(unit') = NumTasks)

\* C22: all NumTasks units are spawned before the dispatcher handles a signal
\* of, or waits on, any of them, and a spawn does not depend on the state of
\* the units spawned before it.
C22_SpawnAllFirst == [][C22_Step]_vars

\* The units settle in an order other than the order of their spawns: the
\* last unit's worker has replied and the unit is settled, while the first
\* unit's worker still runs and the unit is pending.
C22_Witness ==
  /\ pc = "join"
  /\ Len(unit) = NumTasks
  /\ unit[NumTasks].posted /\ unit[NumTasks].promise.state = "fulfilled"
  /\ unit[1].thread = "running" /\ unit[1].promise.state = "pending"

\* ------------------------------------------------------------------- C23
\* The deadline timer of unit a fires, as the first signal the unit handles.
firesFirst(a, b) == ~a.isResolved /\ a.timer = "pending" /\ b.timer = "fired"

deadlineText == <<"Worker timeout after ", "120000", "ms">>

C23_Step ==
  /\ \A u \in spawnedUnits :
       (u <= Len(unit') /\ firesFirst(unit[u], unit'[u])) =>
          \* the deadline is the default of processAgentWithWorker
          /\ now - unit[u].armedAt >= 120000
          \* the worker is terminated
          /\ unit'[u].terminateCalls = unit[u].terminateCalls + 1
          /\ unit'[u].worker = "null"
          /\ unit[u].thread = "running" => unit'[u].killed
          \* the unit is rejected with the message that names the deadline
          /\ unit'[u].promise = Rejected("TimeoutError", deadlineText)
  \* and that message is the error of the task's entry
  /\ \A u \in spawnedUnits :
       (pc = "join" /\ pc' \in {"returned", "collect"}
          /\ unit[u].promise.cls = "TimeoutError") =>
            /\ agentResponses'[u].agent = agentName(u)
            /\ ~agentResponses'[u].success
            /\ agentResponses'[u].error = deadlineText

\* C23: when the deadline timer of a unit fires before any other signal, the
\* unit's worker is terminated and the task's entry is a failure whose
\* message names the deadline, which is always the default of 120,000 ms.
C23_DeadlineTerminates == [][C23_Step]_vars

\* A returned job in which a unit's timer fired first: its worker was
\* terminated and its entry carries the deadline message.
C23_Witness ==
  /\ pc = "returned"
  /\ \E u \in spawnedUnits :
       /\ unit[u].timer = "fired"
       /\ unit[u].killed
       /\ unit[u].terminateCalls = 1
       /\ agentResponses[u].error = deadlineText

\* ------------------------------------------------------------------- C24
\* The judge errors that carry the hint "try again in 7s", and the base delay
\* the hint of an error stands for, in ms.
HintedErrors ==
  { <<"API Error", " (429): ", "Rate limit reached. ", "Please try again in ", "7", "s">> }
expectedBase(msg) == IF msg \in HintedErrors THEN 7 * 1000 ELSE 20000

NoBlockReplies == { <<"I could not decide.">> }
UndecodableReplies == { <<"Verdict: ", "{", "winner: PlannerAgent", "}">> }
lastJudgeOutcome == judgeLog[Len(judgeLog)]

\* C25: when the judge's reply has no structured block, or one that fails
\* to decode, the result has method judged, the whole reply as synthesis and
\* the first task's name as winner; the reply ends the aggregation: no
\* other call follows it and the heuristic is not used.
C25_UndecodedReply ==
  \A k \in 1..Len(judgeLog) :
    (judgeLog[k].ok /\ judgeLog[k].text \in NoBlockReplies \cup UndecodableReplies) =>
      /\ k = Len(judgeLog)
      /\ pc = "done" /\ inFlight = 0
      /\ Len(delays) = k - 1
      /\ finalSynthesis.method = "llm"
      /\ finalSynthesis.synthesis = judgeLog[k].text
      /\ finalSynthesis.winner = agentName(1)
      /\ finalSynthesis.winner = agentOutputs[1].name
      /\ result.finalSynthesis.method = "llm"
      /\ result.finalSynthesis.synthesis = judgeLog[k].text

\* The judge, called a second time, replied with a block that does not
\* decode, and the first task is not the one the heuristic would pick.
C25_Witness ==
  /\ pc = "done"
  /\ Len(judgeLog) = 2
  /\ lastJudgeOutcome.ok
  /\ lastJudgeOutcome.text \in UndecodableReplies
  /\ finalSynthesis.method = "llm"
  /\ heuristicScoring(agentOutputs).winner # agentName(1)

\* ------------------------------------------------------------------- C26
\* Judge replies that embed the verdict {winner = PlannerAgent} in free text;
\* in the second the text after the block contains further braces.
EmbeddedVerdictReplies ==
  { <<"Verdict: ", "{", "winner=PlannerAgent", "}">>,
    <<"Verdict: ", "{", "winner=PlannerAgent", "}", " as in function f() ", "{", "}">> }

\* C26 as stated: from a reply that embeds a valid verdict in free text the
\* verdict is extracted and decoded, also when braces follow the block.
C26_Original ==
  (pc = "done" /\ Len(judgeLog) > 0 /\ lastJudgeOutcome.ok
     /\ lastJudgeOutcome.text \in EmbeddedVerdictReplies) =>
    /\ finalSynthesis.method = "llm"
    /\ finalSynthesis.winner = "PlannerAgent"
    /\ finalSynthesis.synthesis = <<"parsed synthesis">>

\* ------------------------------------------------------------------- C27
TaskNames == {agentName(u) : u \in Units}

\* C27 as stated: in every synthesis, on every path, the winner is none or
\* the name of one of the job's tasks.
C27_Original ==
  /\ pc = "done" => finalSynthesis.winner \in TaskNames \cup {NULL}
  /\ result.returned => result.finalSynthesis.winner \in TaskNames \cup {NULL}

\* ------------------------------------------------------------------- C28
\* The cache as the last call of getBestAvailableModel found it.
cacheAge == lastCall.at - lastCall.timestampBefore
foundFreshList == lastCall.hadCache /\ cacheAge < 3600000

\* C28: getBestAvailableModel fetches the model list on first use, on every
\* call made when the cached list is at least one hour old, and when
\* forceRefresh is set; it does not fetch while a cached list is younger than
\* one hour; a fetch that succeeded leaves its list in the cache and its
\* time as the fetch time.
C28_CacheTTL ==
  lastCall.made =>
    /\ ~lastCall.hadCache => lastCall.fetched
    /\ (lastCall.hadCache /\ cacheAge >= 3600000) => lastCall.fetched
    /\ lastCall.forceRefresh => lastCall.fetched
    /\ (foundFreshList /\ ~lastCall.forceRefresh) =>
         /\ ~lastCall.fetched
         /\ modelCacheTimestamp = lastCall.timestampBefore
    /\ (lastCall.fetched /\ lastCall.fetchOk) =>
         /\ availableModelsCache.cached
         /\ availableModelsCache.models = selection.models
         /\ modelCacheTimestamp = lastCall.at
    /\ selection.called /\ selection.models = availableModelsCache.models

\* A call made when the cached list had reached the age of one hour, and
\* not more than that and one tick: it fetched again and cached what it got.
C28_Witness ==
  /\ lastCall.made /\ ~lastCall.forceRefresh
  /\ lastCall.hadCache /\ cacheAge >= 3600000 /\ cacheAge < 3600000 + CacheTickMs
  /\ lastCall.fetched /\ lastCall.fetchOk
  /\ modelCacheTimestamp = lastCall.at
  /\ Len(availableModelsCache.models) = 2

\* ------------------------------------------------------------------- C29
\* C29 as stated: when the fetch of the model list fails, there are no
\* candidates, getBestAvailableModel returns the class's default model, and
\* nothing is cached for the failed fetch.
C29_Original ==
  (lastCall.made /\ lastCall.fetched /\ ~lastCall.fetchOk) =>
    /\ selection.models = <<>>
    /\ selection.best = getDefaultModel
    /\ modelCacheTimestamp = lastCall.timestampBefore
    /\ availableModelsCache.cached = lastCall.hadCache

\* ------------------------------------------------------------------- C30
withinBudget(prompt) == estimateTokens(prompt) <= maxInputTokens

\* C30 as stated: GroqAgent reduces a prompt only when its estimated token
\* count exceeds the input budget; a prompt within the budget is posted
\* unchanged.
C30_Original ==
  (groqRequest.made /\ withinBudget(groqRequest.prompt)) =>
    groqRequest.posted = groqRequest.prompt

\* ------------------------------------------------------------------- C31
\* C31: whatever the prompt, the text GroqAgent posts has an estimated
\* token count of at most maxInputTokens, and the max_tokens it asks for is
\* at most 512.
C31_InputBudget ==
  groqRequest.made =>
    /\ estimateTokens(groqRequest.posted) <= maxInputTokens
    /\ groqRequest.max_tokens <= 512

\* A prompt whose role line alone is over the budget was cut at the hard
\* limit, and the caller had asked for more than 512 output tokens.
C31_Witness ==
  /\ groqRequest.made
  /\ estimateTokens(groqRequest.prompt) > maxInputTokens
  /\ groqRequest.posted[Len(groqRequest.posted)] = "\n[Truncated]"
  /\ length(groqRequest.posted) = (maxInputTokens - 300) * 3 - 50 + 12
  /\ groqRequest.max_tokens = 512

\* ------------------------------------------------------------------- C32
wellFormed(e) ==
  IF e.success
    THEN trim(e.actualResponse) # <<>> /\ e.error = NoText
    ELSE e.error # NoText /\ e.actualResponse = NoText

\* C32: every entry of the result set is either a success with a non-empty
\* text and no error, or a failure with an error message and no text; a
\* backend reply that is empty, whitespace only or not a text gives a
\* failure entry.
C32_WellFormedEntries ==
  /\ \A i \in 1..Len(agentResponses) : wellFormed(agentResponses[i])
  /\ workerRun.ran =>
       /\ wellFormed(workerRun.entry)
       /\ (workerRun.backend = "answered" /\ workerRun.outcome \in OtherBackendOutcomes
           /\ trim(workerRun.outcome.content) = <<>>)
            => ~workerRun.entry.success

\* A whitespace-only reply of a backend whose key is configured became a
\* failure entry with the agent's ProviderError message.
C32_Witness ==
  /\ workerRun.ran /\ workerRun.backend = "answered"
  /\ workerRun.data = workerData(2, "openai")
  /\ workerRun.outcome = [kind |-> "content", content |-> <<" ", "\n">>]
  /\ ~workerRun.entry.success
  /\ workerRun.entry.error = <<"Invalid response from ", "OpenAI", " API">>
  /\ workerRun.entry.agent = agentName(2)

\* ------------------------------------------------------------------- C34
\* C34: a worker posts at most one message, and a worker that ran its
\* processAgent to the end posted exactly one, a success or a failure,
\* whether the validation, the construction of the agent or the backend
\* failed or nothing did.
C34_OneMessage ==
  workerRun.ran =>
    /\ Len(workerRun.posted) <= 1
    /\ workerRun.backend = "answered" => Len(workerRun.posted) = 1

\* A worker whose workerData had a blank prompt posted the one failure
\* message of the validation.
C34_Witness ==
  /\ workerRun.ran /\ workerRun.backend = "answered"
  /\ workerRun.data.prompt = <<" ">>
  /\ workerRun.posted = << <<FALSE, <<"Missing or invalid prompt in worker data">> >> >>

\* ------------------------------------------------------------------- C33
noProviderResolvable ==
  /\ pc # "start" /\ presetFound(agentPreset)
  /\ provider = NULL /\ getDefaultProvider = NULL

\* C33 as stated: with no explicit provider and no default provider
\* processAllAgents fails (ConfigurationError), and no unit is spawned.
C33_Original == noProviderResolvable => (pc = "failed" /\ Len(unit) = 0)

\* C33, amended: with no explicit provider and no default provider no unit
\* is spawned, and processAllAgents does not fail: no default provider means
\* no API key, so it returns the fallback result set.
C33_NoProviderNoSpawn ==
  noProviderResolvable =>
    /\ Len(unit) = 0
    /\ pc \in {"collect", "done"}
    /\ fallbackResultSet(agentResponses)

\* A job without provider argument and without any key that went on to
\* aggregation.
C33_Witness ==
  /\ noProviderResolvable /\ keys = {}
  /\ pc = "done" /\ result.returned
  /\ Len(result.agents) = NumTasks

\* ------------------------------------------------------------------- C35
\* C35 as stated: the synthesis has method error_fallback, with
\* allAgentsFailed set, only if every task of the job failed.
C35_Original ==
  (Len(agentResponses) = NumTasks /\ finalSynthesis.method = "error_fallback") =>
    /\ finalSynthesis.allAgentsFailed
    /\ \A i \in 1..NumTasks : ~agentResponses[i].success

\* ------------------------------------------------------------------- C36
\* the provider ids the dispatcher can hand to a worker on its own:
\* getDefaultProvider's, with the key it was found by
dispatchedByDefault(p) == provider = NULL /\ p = getDefaultProvider /\ getApiKey(p) # NULL

\* C36 as stated: a worker given a provider id that getDefaultProvider
\* returns, whose key is configured, constructs the agent: when the backend
\* returns a non-empty text the entry is a success and not an 'Unknown
\* provider' failure.
C36_Original ==
  (/\ workerRun.ran /\ workerRun.backend = "answered"
   /\ dispatchedByDefault(workerRun.data.provider)
   /\ workerRun.data = workerData(workerRun.data.unit, workerRun.data.provider)
   /\ validateResponse(workerRun.outcome)) =>
    /\ workerRun.entry.success
    /\ workerRun.entry.actualResponse = trim(workerRun.outcome.content)

\* ------------------------------------------------------------------- C37
judgeReplied == \E i \in 1..Len(judgeLog) : judgeLog[i].ok

C37_Step ==
  \* a further invocation follows only attempts that failed as rate-limited
  /\ (inFlight' > inFlight /\ judgeLog # <<>>) =>
       /\ \A i \in 1..Len(judgeLog) : ~judgeLog[i].ok /\ isRateLimit(judgeLog[i].text)
       /\ Len(judgeLog) = attempt /\ attempt <= maxRetries
  \* the attempt that returns a reply ends aggregate with the judged result
  /\ (Len(judgeLog') > Len(judgeLog) /\ judgeLog'[Len(judgeLog')].ok) =>
       /\ pc' = "done" /\ inFlight' = 0
       /\ finalSynthesis'.method = "llm"
       /\ result'.returned /\ result'.finalSynthesis.method = "llm"
  \* and after a reply no judge is invoked again
  /\ judgeReplied => (inFlight' = 0 /\ judgeLog' = judgeLog /\ pc' = "done")

\* C37: attempt k+1 of the judge is made only if attempt k failed with an
\* error classified as a rate limit; the first attempt that returns a reply
\* makes aggregate return a result of the judged method ('llm'), and no
\* judge is invoked after it.
C37_RetryOnlyAfterRateLimit == [][C37_Step]_vars

\* The third attempt returned a reply after two rate-limited ones.
C37_Witness ==
  /\ Len(judgeLog) = maxRetries + 1
  /\ \A i \in 1..maxRetries : ~judgeLog[i].ok /\ isRateLimit(judgeLog[i].text)
  /\ judgeLog[maxRetries + 1].ok
  /\ Len(delays) = maxRetries
  /\ pc = "done" /\ finalSynthesis.method = "llm"

\* ------------------------------------------------------------------- C38
\* C38 as stated: when the synthesis is the heuristic one and at least one
\* task succeeded, the winner is not a task whose entry is a failure.
C38_Original ==
  (/\ finalSynthesis.method = "heuristic"
   /\ Len(agentResponses) = NumTasks
   /\ \E i \in 1..NumTasks : agentResponses[i].success) =>
    \A i \in 1..NumTasks :
      agentResponses[i].agent = finalSynthesis.winner => agentResponses[i].success

\* ------------------------------------------------------------------- C39
\* C39: however concurrent getAgents calls for the same or for different
\* presets interleave, a non-null agentsCache holds the agent list of
\* currentPreset, and every call that returned got the agent list of the
\* preset it asked for.
C39_CacheCoherent ==
  /\ taskManager.agentsCache.loaded =>
       taskManager.agentsCache = getAgentsByPreset(taskManager.currentPreset).agents
  /\ \A c \in 1..Len(taskManager.calls) :
       taskManager.calls[c].state = "returned" =>
         taskManager.calls[c].value = getAgentsByPreset(taskManager.calls[c].preset).agents

\* Two calls for different presets were awaiting together and resumed in
\* the opposite order; a third call was then served from the cache.
C39_Witness ==
  /\ Len(taskManager.calls) = 3
  /\ taskManager.calls[1].preset = "frontend" /\ taskManager.calls[2].preset = "specialized"
  /\ taskManager.calls[3].preset = "frontend"
  /\ \A c \in 1..3 : taskManager.calls[c].state = "returned"
  /\ taskManager.currentPreset = "frontend"
  /\ taskManager.agentsCache = getAgentsByPreset("frontend").agents

====
